---- MODULE Spec2Model ----
(***************************************************************************)
(* Event-driven backtesting core of the trading competition evaluator:     *)
(* CSV ingestion (read_and_batch_csv_data), Market_local, Portfolio_local, *)
(* Engine_local, calculate_sharpe_ratio and evaluate_submission /          *)
(* lambda_handler of infra/lambda/evaluator_lambda.py (Spec, IngestSpec),  *)
(* and the vectorized evaluation of src/evaluation.py as main() of         *)
(* infra/entrypoint_eval.py drives it (EvalSpec).                          *)
(*                                                                         *)
(* Floats are modelled as records [nan, v]: v is an integer (prices, cash  *)
(* and quantities are drawn from integer-valued inputs, on which float     *)
(* arithmetic is exact), nan marks the IEEE not-a-number value, which      *)
(* float("NaN") produces.  None is a token.                                *)
(***************************************************************************)
EXTENDS Integers, Sequences, FiniteSets, TLC

VARIABLES
    csv,            \* the test data: [headers, rows]
    builder,        \* what build_trader(universe) does: "ok", "raises", "no_on_quote"
    pc,             \* position of evaluate_submission / Engine_local.run
    universe,       \* Engine_local.universe
    data_batches,   \* Engine_local.data_batches
    quotes,         \* Market_local.quotes
    cash,           \* Portfolio_local.cash
    positions,      \* Portfolio_local.positions
    nav_history,    \* Engine_local.nav_history
    bi,             \* index of the batch the run loop is at
    qi,             \* index of the next quote of that batch to apply
    last_call,      \* the last buy/sell call of the strategy and its outcome
    on_quote_calls, \* per batch index, how often on_quote was invoked
    last_update,    \* per id, the quote most recently passed to Market_local.update
    raised,         \* batch indices whose on_quote raised
    trades,         \* number of buy/sell calls made so far
    record,         \* the item evaluate_submission / lambda_handler put in the table
    \* the vectorized evaluation, infra/entrypoint_eval.py and src/evaluation.py
    df,               \* the test data frame: its columns and its close prices
    signals,          \* what generate_signals(df) returned
    cost_bps,         \* COST_BPS
    timeout_seconds,  \* TIMEOUT_SECONDS, 0 when unset
    elapsed,          \* time.time() - t0, in seconds
    mainpc,           \* position of main()
    metrics,          \* what evaluate() returned
    item,             \* the item main() put in the table
    warned,           \* main() printed the timeout warning
    \* tools/submit.py and the S3 triggers on the submissions bucket
    folder,           \* the files under ./submission, as paths relative to it
    bucket,           \* the relative paths uploaded under the submission prefix
    submitpc,         \* position of main() of submit.py
    evaluations,      \* the evaluations triggered so far, with the bucket they found
    \* the scores table and the handlers around it
    table,            \* the items of the table, by (participant_id, submission_id)
    now,              \* int(time.time())
    submitted,        \* per submission, the time it was uploaded
    queue,            \* the re-evaluation messages in the SQS queue
    response,         \* what the handler invoked last returned
    \* the enter/exit Portfolio of src/pricing/Portfolio.py
    tradelog,         \* per product, what self.tradelog holds
    \* lambda_handler of the evaluator
    submissions_to_process,  \* the sub_info of each record of the event
    sub_i,                   \* index of the sub_info the loop is at
    hpc,                     \* position of lambda_handler
    results,                 \* per sub_info handled, whether success_count or
                             \* failure_count was incremented for it
    sqs_eval_queue_url,      \* SQS_QUEUE_URL_FOR_EVALUATOR is set
    local_files,             \* the local_path files present under /tmp
    api_event,               \* the request the submission API handler was invoked with
    apipc,                   \* position of the submission API handler
    requests,                \* number of requests received (the uuid4 of the next one)
    objects,                 \* S3 keys put in SUBMISSIONS_BUCKET by the API handler
    messages,                \* message bodies the API handler sent to SQS_QUEUE_URL
    api_response,            \* statusCode returned for the request, <<>> before
    orch_event,              \* the S3 record the orchestrator was triggered with
    opc,                     \* position of the orchestrator's lambda_handler
    submissions_to_reevaluate,  \* the orchestrator's list of latest submissions
    orch_i,                  \* index of the submission the send loop is at
    attempted,               \* message bodies send_message was called with
    message_count,           \* the orchestrator's count of sent messages
    orch_response,           \* statusCode the orchestrator returned, <<>> before
    hyperparams              \* ExampleStrategy.hyperparams

enginevars == <<csv, builder, pc, universe, data_batches, quotes, cash, positions,
                nav_history, bi, qi, last_call, on_quote_calls, last_update, raised,
                trades, record>>

evalvars == <<df, signals, cost_bps, timeout_seconds, elapsed, mainpc, metrics,
              item, warned>>

submitvars == <<folder, bucket, submitpc, evaluations>>

scorevars == <<table, now, submitted, queue, response>>

legacyvars == <<tradelog>>

handlervars == <<submissions_to_process, sub_i, hpc, results, sqs_eval_queue_url, local_files>>

apivars == <<api_event, apipc, requests, objects, messages, api_response>>

orchvars == <<orch_event, opc, submissions_to_reevaluate, orch_i, attempted,
              message_count, orch_response>>

stratvars == <<hyperparams>>

extvars == <<apivars, orchvars, stratvars>>

toolvars_but_orch == <<submitvars, scorevars, legacyvars, handlervars, apivars, stratvars>>

toolvars_but_legacy == <<submitvars, scorevars, handlervars, extvars>>

toolvars == <<submitvars, scorevars, legacyvars, handlervars, extvars>>

vars == <<enginevars, evalvars, toolvars>>

----------------------------------------------------------------------------
(* Bounds of the model *)

MaxRows == 2
MaxTrades == 2
MaxBars == 3
MaxElapsed == 2

----------------------------------------------------------------------------
(* Floats *)

Num(n) == [nan |-> FALSE, v |-> n]
NaN == [nan |-> TRUE, v |-> 0]

FAdd(a, b) == IF a.nan \/ b.nan THEN NaN ELSE Num(a.v + b.v)
FSub(a, b) == IF a.nan \/ b.nan THEN NaN ELSE Num(a.v - b.v)
FMul(a, b) == IF a.nan \/ b.nan THEN NaN ELSE Num(a.v * b.v)
Abs(n) == IF n < 0 THEN -n ELSE n

\* float(cell): the numeric cells of the model's inputs; anything else is a
\* ValueError, reported as ParseError.
ParseError == [nan |-> FALSE, v |-> -1, error |-> TRUE]
float(cell) ==
    CASE cell = "50"  -> Num(50)
      [] cell = "100" -> Num(100)
      [] cell = "1"   -> Num(1)
      [] cell = "2"   -> Num(2)
      [] cell = "10"  -> Num(10)
      [] cell = "NaN" -> NaN
      [] OTHER        -> ParseError

----------------------------------------------------------------------------
(* Strings: Python compares str by code point, lexicographically *)

None == "<None>"

Chars(s) ==
    CASE s = "A"         -> <<65>>
      [] s = "B"         -> <<66>>
      [] s = "Clock"     -> <<67, 108, 111, 99, 107>>
      [] s = "date"      -> <<100, 97, 116, 101>>
      [] s = "timestep"  -> <<116, 105, 109, 101, 115, 116, 101, 112>>
      [] s = "timestamp" -> <<116, 105, 109, 101, 115, 116, 97, 109, 112>>
      [] s = "mid_price" -> <<109, 105, 100, 95, 112, 114, 105, 99, 101>>
      [] s = "1"         -> <<49>>
      [] s = "2"         -> <<50>>
      [] s = "10"        -> <<49, 48>>
      [] s = "submission.py" ->
            <<115, 117, 98, 109, 105, 115, 115, 105, 111, 110, 46, 112, 121>>
      [] s = "test_submission.py" ->
            <<116, 101, 115, 116, 95, 115, 117, 98, 109, 105, 115, 115, 105, 111, 110, 46, 112, 121>>
      [] s = "model.pkl" ->
            <<109, 111, 100, 101, 108, 46, 112, 107, 108>>
      [] s = "utils.py" ->
            <<117, 116, 105, 108, 115, 46, 112, 121>>
      [] s = "pkg" ->
            <<112, 107, 103>>

RECURSIVE SeqLess(_, _)
SeqLess(a, b) ==
    IF b = <<>> THEN FALSE
    ELSE IF a = <<>> THEN TRUE
    ELSE IF Head(a) # Head(b) THEN Head(a) < Head(b)
    ELSE SeqLess(Tail(a), Tail(b))

StrLess(s, t) == SeqLess(Chars(s), Chars(t))

\* sorted(xs) of a list of str; the sort is stable
sorted(s) ==
    LET RECURSIVE Ins(_, _)
        Ins(x, t) == IF t = <<>> THEN <<x>>
                     ELSE IF StrLess(x, t[Len(t)])
                          THEN Ins(x, SubSeq(t, 1, Len(t) - 1)) \o <<t[Len(t)]>>
                          ELSE t \o <<x>>
        RECURSIVE Srt(_)
        Srt(t) == IF t = <<>> THEN <<>>
                  ELSE Ins(t[Len(t)], Srt(SubSeq(t, 1, Len(t) - 1)))
    IN Srt(s)

RECURSIVE SetToSeq(_)
SetToSeq(S) == IF S = {} THEN <<>>
               ELSE LET x == CHOOSE y \in S : TRUE
                    IN <<x>> \o SetToSeq(S \ {x})

\* index of header h in the header list, 0 when absent
IndexOf(h, hs) == IF \E i \in 1..Len(hs) : hs[i] = h
                  THEN CHOOSE i \in 1..Len(hs) : hs[i] = h
                  ELSE 0

----------------------------------------------------------------------------
(* Quote ingestion: read_and_batch_csv_data.  A csv is its header list and  *)
(* its rows as csv.DictReader returns them, a row being the list of its     *)
(* cells in header order.                                                   *)

HasKey(c, h) == IndexOf(h, c.headers) # 0
Cell(c, row, h) == row[IndexOf(h, c.headers)]
\* row.get(h)
Get(c, row, h) == IF HasKey(c, h) THEN Cell(c, row, h) ELSE None

\* time_col = 'timestep' if 'timestep' in headers else 'timestamp'
time_col(c) == IF HasKey(c, "timestep") THEN "timestep" ELSE "timestamp"

price_col == "mid_price"

Quote(id, ts, price) == [id |-> id, timestep |-> ts, price |-> price]

\* variant: the Clock is appended without the time key of its batch
ClockQuote_untimed(ts) == [id |-> "Clock", timestep |-> None]

ClockQuote(ts) == [id |-> "Clock", timestep |-> ts]

\* (q['timestep'], q['id']) compared as Python compares tuples of str
QuoteKeyLess(q, r) ==
    \/ StrLess(q.timestep, r.timestep)
    \/ q.timestep = r.timestep /\ StrLess(q.id, r.id)

\* all_quotes.sort(key=lambda q: (q['timestep'], q['id'])); the sort is stable
sort_quotes(s) ==
    LET RECURSIVE Ins(_, _)
        Ins(x, t) == IF t = <<>> THEN <<x>>
                     ELSE IF QuoteKeyLess(x, t[Len(t)])
                          THEN Ins(x, SubSeq(t, 1, Len(t) - 1)) \o <<t[Len(t)]>>
                          ELSE t \o <<x>>
        RECURSIVE Srt(_)
        Srt(t) == IF t = <<>> THEN <<>>
                  ELSE Ins(t[Len(t)], Srt(SubSeq(t, 1, Len(t) - 1)))
    IN Srt(s)

\* the loop that cuts the sorted quotes into batches, each closed by a Clock
RECURSIVE BatchLoop(_, _, _, _)
BatchLoop(all_quotes, batched_data, current_batch, last_ts) ==
    IF all_quotes = <<>>
    THEN IF current_batch # <<>>
         THEN Append(batched_data, Append(current_batch, ClockQuote(last_ts)))
         ELSE batched_data
    ELSE LET quote == Head(all_quotes)
             ts == quote.timestep
             lts == IF last_ts = None THEN ts ELSE last_ts
         IN IF ts # lts
            THEN BatchLoop(Tail(all_quotes),
                           IF current_batch # <<>>
                           THEN Append(batched_data, Append(current_batch, ClockQuote(lts)))
                           ELSE batched_data,
                           <<quote>>, ts)
            ELSE BatchLoop(Tail(all_quotes), batched_data, Append(current_batch, quote), lts)

\* the quotes of the rows that pass the try block of the long format, in file order
RECURSIVE LongRowQuotes(_, _)
LongRowQuotes(c, rows) ==
    IF rows = <<>> THEN <<>>
    ELSE LET row == Head(rows)
             ok == /\ HasKey(c, price_col)
                   /\ "error" \notin DOMAIN float(Cell(c, row, price_col))
                   /\ HasKey(c, time_col(c))
         IN (IF ok THEN <<Quote(Cell(c, row, "product_id"), Cell(c, row, time_col(c)),
                                float(Cell(c, row, price_col)))>>
             ELSE <<>>) \o LongRowQuotes(c, Tail(rows))

\* set(row['product_id'] for row in all_rows)
ProductIds(c) == {Cell(c, c.rows[i], "product_id") : i \in 1..Len(c.rows)}

\* variant: the universe is list(set(...)), not sorted
LongUniverseOf_unsorted(order) == order

\* sorted(list(set(...))), where order is the list the set iterates to
LongUniverseOf(order) == sorted(order)

LongUniverse(c) == LongUniverseOf(SetToSeq(ProductIds(c)))

RECURSIVE ExtendByProduct(_, _)
ExtendByProduct(univ, qs) ==
    IF univ = <<>> THEN <<>>
    ELSE LET IsRic(q) == q.id = Head(univ)
         IN SelectSeq(qs, IsRic) \o ExtendByProduct(Tail(univ), qs)

\* the batches of the long format, for the universe univ
LongBatchesOf(c, univ) ==
    LET all_quotes == ExtendByProduct(univ, LongRowQuotes(c, c.rows))
    IN BatchLoop(sort_quotes(all_quotes), <<>>, <<>>, None)

LongBatches(c) == LongBatchesOf(c, LongUniverse(c))

WideUniverse(c) ==
    LET NotTime(h) == h # time_col(c)
    IN sorted(SelectSeq(c.headers, NotTime))

RECURSIVE WideRowQuotes(_, _, _)
WideRowQuotes(c, row, univ) ==
    IF univ = <<>> THEN <<>>
    ELSE LET ric == Head(univ)
             cell == Get(c, row, ric)
             ok == /\ cell # None
                   /\ cell \notin {"", "NaN"}
                   /\ "error" \notin DOMAIN float(cell)
         IN (IF ok THEN <<Quote(ric, Get(c, row, time_col(c)), float(cell))>> ELSE <<>>)
            \o WideRowQuotes(c, row, Tail(univ))

\* variant: the test "if current_batch" is missing, so a row without a usable
\* cell still gives a batch, of the Clock alone
RECURSIVE WideBatches_keepempty(_, _)
WideBatches_keepempty(c, rows) ==
    IF rows = <<>> THEN <<>>
    ELSE LET row == Head(rows)
             current_batch == WideRowQuotes(c, row, WideUniverse(c))
         IN <<Append(current_batch, ClockQuote(Get(c, row, time_col(c))))>>
            \o WideBatches_keepempty(c, Tail(rows))

RECURSIVE WideBatches(_, _)
WideBatches(c, rows) ==
    IF rows = <<>> THEN <<>>
    ELSE LET row == Head(rows)
             current_batch == WideRowQuotes(c, row, WideUniverse(c))
         IN (IF current_batch # <<>>
             THEN <<Append(current_batch, ClockQuote(Get(c, row, time_col(c))))>>
             ELSE <<>>) \o WideBatches(c, Tail(rows))

\* csv.DictReader fills the cells a short row lacks with None.  In the long
\* format float(None) is a TypeError, and so is sorting a product_id of None
\* against a str; neither is among the exceptions the row loop catches, so the
\* function re-raises.  The wide format tests the cell against None first.
read_raises(c) ==
    /\ HasKey(c, "product_id")
    /\ \/ \E i, j \in 1..Len(c.rows) :
             /\ Cell(c, c.rows[i], "product_id") = None
             /\ Cell(c, c.rows[j], "product_id") # None
       \/ /\ HasKey(c, price_col)
          /\ \E i \in 1..Len(c.rows) : Cell(c, c.rows[i], price_col) = None

\* the value returned when the function does not raise
read_and_batch_csv_data(c) ==
    IF HasKey(c, "product_id")
    THEN [universe |-> LongUniverse(c), batches |-> LongBatches(c)]
    ELSE [universe |-> WideUniverse(c), batches |-> WideBatches(c, c.rows)]

----------------------------------------------------------------------------
(* Market_local *)

\* variant: the Clock test is missing
update_all(qs, quote) ==
    [p \in DOMAIN qs \cup {quote.id} |-> IF p = quote.id THEN quote ELSE qs[p]]

\* Market_local.update(quote), on the quotes map
update(qs, quote) ==
    IF quote.id # "Clock"
    THEN [p \in DOMAIN qs \cup {quote.id} |-> IF p = quote.id THEN quote ELSE qs[p]]
    ELSE qs

----------------------------------------------------------------------------
(* Portfolio_local *)

leverage_limit == 10
initial_cash == 100000

\* sum of f[k] over the keys of a dict of floats
RECURSIVE FSum(_)
FSum(f) ==
    IF DOMAIN f = {} THEN Num(0)
    ELSE LET k == CHOOSE x \in DOMAIN f : TRUE
         IN FAdd(f[k], FSum([x \in DOMAIN f \ {k} |-> f[x]]))

\* _get_price(product), for a product that has a quote
_get_price(qs, product) == qs[product].price

_gross_exposure(qs, pos) ==
    FSum([p \in DOMAIN pos |-> FMul(Num(Abs(pos[p])), _get_price(qs, p))])

\* variant: the position value is summed with abs(), as the exposure is
_net_asset_value_abs(qs, c, pos) ==
    FAdd(Num(c), FSum([p \in DOMAIN pos |-> FMul(Num(Abs(pos[p])), _get_price(qs, p))]))

_net_asset_value(qs, c, pos) ==
    FAdd(Num(c), FSum([p \in DOMAIN pos |-> FMul(Num(pos[p]), _get_price(qs, p))]))

\* variant: the comparison is strict, leverage < limit
LeverageWithin_strict(gross, net_value, limit) ==
    /\ ~gross.nan
    /\ ~net_value.nan
    /\ IF net_value.v >= 1 THEN gross.v < limit * net_value.v ELSE gross.v <= 0

\* variant: the denominator is abs(net_value) instead of max(net_value, 1e-8)
LeverageWithin_absnav(gross, net_value, limit) ==
    /\ ~gross.nan
    /\ ~net_value.nan
    /\ IF Abs(net_value.v) >= 1 THEN gross.v <= limit * Abs(net_value.v) ELSE gross.v <= 0

\* gross / max(net_value, 1e-8) <= limit.  A NaN operand makes the comparison
\* false.  On the integer-valued amounts of the model max(net_value, 1e-8) is
\* net_value when net_value >= 1 and 1e-8 otherwise, and gross / 1e-8 <= limit
\* holds iff gross <= limit * 1e-8 < 1, that is iff gross <= 0.
LeverageWithin(gross, net_value, limit) ==
    /\ ~gross.nan
    /\ ~net_value.nan
    /\ IF net_value.v >= 1 THEN gross.v <= limit * net_value.v ELSE gross.v <= 0

\* _leverage(): the operands of gross / max(net_value, 1e-8)
_leverage(qs, c, pos) ==
    [gross |-> _gross_exposure(qs, pos), net_value |-> _net_asset_value(qs, c, pos)]

\* variant: the exposure is summed without abs()
_check_leverage_signed(qs, new_cash, new_positions) ==
    LET gross == FSum([p \in DOMAIN new_positions |->
                         FMul(Num(new_positions[p]), _get_price(qs, p))])
        net_value == FAdd(Num(new_cash),
                          FSum([p \in DOMAIN new_positions |->
                                  FMul(Num(new_positions[p]), _get_price(qs, p))]))
    IN LeverageWithin(gross, net_value, leverage_limit)

_check_leverage(qs, new_cash, new_positions) ==
    LET gross == FSum([p \in DOMAIN new_positions |->
                         FMul(Num(Abs(new_positions[p])), _get_price(qs, p))])
        net_value == FAdd(Num(new_cash),
                          FSum([p \in DOMAIN new_positions |->
                                  FMul(Num(new_positions[p]), _get_price(qs, p))]))
    IN LeverageWithin(gross, net_value, leverage_limit)

summary(qs, c, pos) ==
    [cash |-> c, positions |-> pos,
     gross_exposure |-> _gross_exposure(qs, pos),
     net_value |-> _net_asset_value(qs, c, pos),
     leverage |-> _leverage(qs, c, pos)]

\* new_positions.get(product, 0)
GetQty(pos, product) == IF product \in DOMAIN pos THEN pos[product] ELSE 0

\* variant: a product whose quantity becomes 0 is removed from the dict
SetQty_dropzero(pos, product, qty) ==
    IF qty = 0 THEN [p \in DOMAIN pos \ {product} |-> pos[p]]
    ELSE [p \in DOMAIN pos \cup {product} |-> IF p = product THEN qty ELSE pos[p]]

SetQty(pos, product, qty) ==
    [p \in DOMAIN pos \cup {product} |-> IF p = product THEN qty ELSE pos[p]]

\* variant: new_positions aliases self.positions (no copy), so a rejected buy
\* has already changed the position
buy_nocopy(qs, c, pos, product, quantity) ==
    LET price == _get_price(qs, product)
        cost == FMul(price, Num(quantity))
        new_cash == FSub(Num(c), cost).v
        new_positions == SetQty(pos, product, GetQty(pos, product) + quantity)
    IN IF ~_check_leverage(qs, new_cash, new_positions)
       THEN [result |-> FALSE, cash |-> c, positions |-> new_positions]
       ELSE [result |-> TRUE, cash |-> new_cash, positions |-> new_positions]

\* variant: the cost is charged twice
buy_twice(qs, c, pos, product, quantity) ==
    LET price == _get_price(qs, product)
        cost == FMul(price, Num(quantity))
        new_cash == FSub(FSub(Num(c), cost), cost).v
        new_positions == SetQty(pos, product, GetQty(pos, product) + quantity)
    IN IF ~_check_leverage(qs, new_cash, new_positions)
       THEN [result |-> FALSE, cash |-> c, positions |-> pos]
       ELSE [result |-> TRUE, cash |-> new_cash, positions |-> new_positions]

\* buy(product, quantity) on a quoted product: the result and the state it leaves.
\* A NaN price gives a NaN cost; it makes the leverage check fail, so new_cash
\* is never committed in that case.
buy(qs, c, pos, product, quantity) ==
    LET price == _get_price(qs, product)
        cost == FMul(price, Num(quantity))
        new_cash == FSub(Num(c), cost).v
        new_positions == SetQty(pos, product, GetQty(pos, product) + quantity)
    IN IF ~_check_leverage(qs, new_cash, new_positions)
       THEN [result |-> FALSE, cash |-> c, positions |-> pos]
       ELSE [result |-> TRUE, cash |-> new_cash, positions |-> new_positions]

\* variant: a sell that lowers the gross exposure is admitted without the
\* leverage check
sell_reducing(qs, c, pos, product, quantity) ==
    LET price == _get_price(qs, product)
        proceeds == FMul(price, Num(quantity))
        new_cash == FAdd(Num(c), proceeds).v
        new_positions == SetQty(pos, product, GetQty(pos, product) - quantity)
        lower == /\ ~_gross_exposure(qs, pos).nan
                 /\ _gross_exposure(qs, new_positions).v < _gross_exposure(qs, pos).v
    IN IF ~lower /\ ~_check_leverage(qs, new_cash, new_positions)
       THEN [result |-> FALSE, cash |-> c, positions |-> pos]
       ELSE [result |-> TRUE, cash |-> new_cash, positions |-> new_positions]

sell(qs, c, pos, product, quantity) ==
    LET price == _get_price(qs, product)
        proceeds == FMul(price, Num(quantity))
        new_cash == FAdd(Num(c), proceeds).v
        new_positions == SetQty(pos, product, GetQty(pos, product) - quantity)
    IN IF ~_check_leverage(qs, new_cash, new_positions)
       THEN [result |-> FALSE, cash |-> c, positions |-> pos]
       ELSE [result |-> TRUE, cash |-> new_cash, positions |-> new_positions]

----------------------------------------------------------------------------
(* calculate_sharpe_ratio.  A return is kept exact, as a fraction in lowest *)
(* terms; the result is kept as its kind: 0.0, NaN, or a finite quotient.   *)

RECURSIVE GCD(_, _)
GCD(a, b) == IF b = 0 THEN a ELSE GCD(b, a % b)

Sign(n) == IF n < 0 THEN -1 ELSE 1

\* nav_series.pct_change() at one position: cur / prev - 1.  Division by a
\* zero NAV gives NaN for 0/0 and an infinity otherwise.
pct_change(prev, cur) ==
    IF prev.nan \/ cur.nan \/ (prev.v = 0 /\ cur.v = 0) THEN [kind |-> "nan"]
    ELSE IF prev.v = 0 THEN [kind |-> "inf"]
    ELSE LET g == GCD(Abs(cur.v - prev.v), Abs(prev.v))
         IN [kind |-> "num",
             n |-> (Sign(prev.v) * Sign(cur.v - prev.v)) * (Abs(cur.v - prev.v) \div g),
             d |-> Abs(prev.v) \div g]

\* nav_series.pct_change().dropna(): the first position is NaN and is dropped
Returns(navs) ==
    LET all == [i \in 1..(Len(navs) - 1) |-> pct_change(navs[i], navs[i + 1])]
        NotNaN(r) == r.kind # "nan"
    IN SelectSeq(all, NotNaN)

\* returns.std(), the sample standard deviation (ddof=1), by kind: NaN for a
\* single return and for a series with an infinity, 0 when all returns are
\* equal, a positive number otherwise
Std(returns) ==
    IF Len(returns) < 2 \/ \E i \in 1..Len(returns) : returns[i].kind = "inf" THEN "nan"
    ELSE IF \A i \in 1..Len(returns) : returns[i] = returns[1] THEN "0"
    ELSE "positive"

SharpeZero == [kind |-> "0.0"]
SharpeNaN == [kind |-> "nan"]
SharpeFinite == [kind |-> "finite"]

calculate_sharpe_ratio(navs) ==
    IF navs = <<>> \/ Len(navs) < 2 THEN SharpeZero
    ELSE IF Returns(navs) = <<>> \/ Std(Returns(navs)) = "0" THEN SharpeZero
    ELSE IF Std(Returns(navs)) = "nan" THEN SharpeNaN
    ELSE SharpeFinite

----------------------------------------------------------------------------
(* Inputs *)

\* test data files.  The reader looks for a timestep or timestamp column; a file
\* may name its time column otherwise.
WideRowPool == { <<"1", "100", "50">>, <<"1", "50", "">>, <<"2", "50", "100">> }

LongRowPool == { <<"1", "A", "100">>, <<"1", "A", "50">>, <<"2", "B", "abc">> }

DateRowPool == { <<"1", "100", "50">> }

SeqsUpTo(S, n) == UNION {[1..k -> S] : k \in 0..n}

WideCsvs ==
    {[utf8 |-> TRUE, headers |-> <<"timestep", "A", "B">>, rows |-> rs] :
        rs \in SeqsUpTo(WideRowPool, MaxRows)}
    \cup {[utf8 |-> TRUE, headers |-> <<"date", "A", "B">>, rows |-> rs] :
        rs \in SeqsUpTo(DateRowPool, MaxRows)}

LongCsvs ==
    {[utf8 |-> TRUE, headers |-> <<tc, "product_id", "mid_price">>, rows |-> rs] :
        tc \in {"timestep", "date"}, rs \in SeqsUpTo(LongRowPool, MaxRows)}

\* bytes that are not UTF-8: csv_bytes.decode raises
BadCsv == [utf8 |-> FALSE, headers |-> <<>>, rows |-> <<>>]

Csvs == WideCsvs \cup LongCsvs \cup {BadCsv}

\* what the submission's build_trader does
Builders == {"ok", "raises", "no_on_quote", "no_build_trader"}

\* the calls a strategy makes
TradeProducts == {"A", "B"}
Quantities == {4000, 10000}

EmptyMap == [p \in {} |-> 0]
NoCall == [op |-> "none", product |-> "", quantity |-> 0, outcome |-> "none", result |-> FALSE]
NoRecord == [kind |-> "none"]

\* the vectorized evaluation before main() has started
NoMetrics == [kind |-> "none"]
EvalIdle ==
    /\ df = [columns |-> {}, close |-> <<>>]
    /\ signals = <<>>
    /\ cost_bps = 0
    /\ timeout_seconds = 0
    /\ elapsed = 0
    /\ mainpc = "idle"
    /\ metrics = NoMetrics
    /\ item = NoRecord
    /\ warned = FALSE

\* submit.py has not been started
SubmitIdle ==
    /\ folder = {}
    /\ bucket = {}
    /\ submitpc = "idle"
    /\ evaluations = {}

NoResponse == [kind |-> "none"]

\* no handler has touched the scores table
ScoresIdle ==
    /\ table = <<>>
    /\ now = 0
    /\ submitted = <<>>
    /\ queue = {}
    /\ response = NoResponse

\* none of the tools around the evaluator is part of the run
\* lambda_handler of the evaluator has not been invoked
HandlerIdle ==
    /\ submissions_to_process = <<>>
    /\ sub_i = 0
    /\ hpc = "idle"
    /\ results = <<>>
    /\ sqs_eval_queue_url = FALSE
    /\ local_files = {}

NoEvent == [kind |-> "none"]

ApiIdle ==
    /\ api_event = NoEvent
    /\ apipc = "idle"
    /\ requests = 0
    /\ objects = {}
    /\ messages = {}
    /\ api_response = <<>>

OrchIdle ==
    /\ orch_event = NoEvent
    /\ opc = "idle"
    /\ submissions_to_reevaluate = <<>>
    /\ orch_i = 0
    /\ attempted = <<>>
    /\ message_count = 0
    /\ orch_response = <<>>

StrategyIdle == hyperparams = <<>>

ExtIdle == ApiIdle /\ OrchIdle /\ StrategyIdle

ToolsIdle == SubmitIdle /\ ScoresIdle /\ HandlerIdle /\ ExtIdle /\ tradelog = <<>>

----------------------------------------------------------------------------
(* evaluate_submission, Engine_local *)

Init ==
    /\ csv \in Csvs
    /\ builder \in Builders
    /\ pc = "ingest"
    /\ universe = <<>>
    /\ data_batches = <<>>
    /\ quotes = EmptyMap
    /\ cash = 0
    /\ positions = EmptyMap
    /\ nav_history = <<>>
    /\ bi = 0
    /\ qi = 0
    /\ last_call = NoCall
    /\ on_quote_calls = <<>>
    /\ last_update = EmptyMap
    /\ raised = {}
    /\ trades = 0
    /\ record = NoRecord
    /\ EvalIdle
    /\ ToolsIdle

\* variant: the except branch stores a best-effort result instead
ErrorRecord_besteffort == [kind |-> "metrics", score |-> SharpeZero]

\* lambda_handler's except branch: the error record
ErrorRecord == [kind |-> "error", score |-> -999]

\* the submission module defines no build_trader: evaluate_submission raises
\* RuntimeError before the test data is fetched
LoadSubmissionFails ==
    /\ pc = "ingest"
    /\ builder = "no_build_trader"
    /\ record' = ErrorRecord
    /\ pc' = "failed"
    /\ UNCHANGED <<toolvars, evalvars, csv, builder, universe, data_batches, quotes, cash,
                   positions, nav_history, bi, qi, last_call, on_quote_calls,
                   last_update, raised, trades>>

\* universe, data_batches = read_and_batch_csv_data(csv_bytes)
Ingest ==
    /\ pc = "ingest"
    /\ builder # "no_build_trader"
    /\ csv.utf8
    /\ ~read_raises(csv)
    /\ universe' = read_and_batch_csv_data(csv).universe
    /\ data_batches' = read_and_batch_csv_data(csv).batches
    /\ on_quote_calls' = [i \in 1..Len(read_and_batch_csv_data(csv).batches) |-> 0]
    /\ pc' = "construct"
    /\ UNCHANGED <<toolvars, evalvars, csv, builder, quotes, cash, positions, nav_history, bi, qi,
                   last_call, last_update, raised, trades, record>>

\* read_and_batch_csv_data re-raises; lambda_handler writes the error record
IngestFails ==
    /\ pc = "ingest"
    /\ builder # "no_build_trader"
    /\ ~csv.utf8 \/ read_raises(csv)
    /\ record' = ErrorRecord
    /\ pc' = "failed"
    /\ UNCHANGED <<toolvars, evalvars, csv, builder, universe, data_batches, quotes, cash, positions,
                   nav_history, bi, qi, last_call, on_quote_calls, last_update,
                   raised, trades>>

\* Engine_local.__init__ with a builder that returns
Construct ==
    /\ pc = "construct"
    /\ builder # "raises"
    /\ quotes' = EmptyMap
    /\ cash' = initial_cash
    /\ positions' = EmptyMap
    /\ nav_history' = <<Num(initial_cash)>>
    /\ pc' = "run"
    /\ UNCHANGED <<toolvars, evalvars, csv, builder, universe, data_batches, bi, qi, last_call,
                   on_quote_calls, last_update, raised, trades, record>>

\* Engine_local.__init__ re-raises the builder's exception
ConstructFails ==
    /\ pc = "construct"
    /\ builder = "raises"
    /\ quotes' = EmptyMap
    /\ cash' = initial_cash
    /\ positions' = EmptyMap
    /\ record' = ErrorRecord
    /\ pc' = "failed"
    /\ UNCHANGED <<toolvars, evalvars, csv, builder, universe, data_batches, nav_history, bi, qi,
                   last_call, on_quote_calls, last_update, raised, trades>>

\* where the for loop of run() goes from batch index i
LoopAt(i) == IF i <= Len(data_batches) THEN "apply" ELSE "metrics"

\* variant: run() enters the loop without the hasattr check
RunBegin_nocheck ==
    /\ pc = "run"
    /\ pc' = LoopAt(1) /\ bi' = 1 /\ qi' = 1
    /\ UNCHANGED <<toolvars, evalvars, csv, builder, universe, data_batches, quotes, cash, positions,
                   nav_history, last_call, on_quote_calls, last_update, raised,
                   trades, record>>

\* run(): the hasattr check and the entry of the loop
RunBegin ==
    /\ pc = "run"
    /\ IF builder = "no_on_quote"
       THEN pc' = "metrics" /\ UNCHANGED <<bi, qi>>
       ELSE pc' = LoopAt(1) /\ bi' = 1 /\ qi' = 1
    /\ UNCHANGED <<toolvars, evalvars, csv, builder, universe, data_batches, quotes, cash, positions,
                   nav_history, last_call, on_quote_calls, last_update, raised,
                   trades, record>>

\* variant: the loop reads the quotes of the batch after the current one
UpdateMarket_ahead ==
    /\ pc = "apply"
    /\ qi <= Len(data_batches[bi])
    /\ LET nb == IF bi < Len(data_batches) THEN bi + 1 ELSE bi
           q == IF qi <= Len(data_batches[nb]) THEN data_batches[nb][qi]
                ELSE data_batches[bi][qi]
       IN /\ quotes' = update(quotes, q)
          /\ last_update' = [p \in DOMAIN last_update \cup {q.id} |->
                               IF p = q.id THEN q ELSE last_update[p]]
    /\ qi' = qi + 1
    /\ UNCHANGED <<toolvars, evalvars, csv, builder, pc, universe, data_batches, cash, positions,
                   nav_history, bi, last_call, on_quote_calls, raised, trades, record>>

\* for q in quote_batch: self.market.update(q)
UpdateMarket ==
    /\ pc = "apply"
    /\ qi <= Len(data_batches[bi])
    /\ quotes' = update(quotes, data_batches[bi][qi])
    /\ last_update' = [p \in DOMAIN last_update \cup {data_batches[bi][qi].id} |->
                         IF p = data_batches[bi][qi].id THEN data_batches[bi][qi]
                         ELSE last_update[p]]
    /\ qi' = qi + 1
    /\ UNCHANGED <<toolvars, evalvars, csv, builder, pc, universe, data_batches, cash, positions,
                   nav_history, bi, last_call, on_quote_calls, raised, trades, record>>

\* variant: on_quote is called inside the quote loop, after the first quote
InvokeOnQuote_early ==
    /\ pc = "apply"
    /\ qi > 1
    /\ on_quote_calls' = [on_quote_calls EXCEPT ![bi] = @ + 1]
    /\ pc' = "strategy"
    /\ UNCHANGED <<toolvars, evalvars, csv, builder, universe, data_batches, quotes, cash, positions,
                   nav_history, bi, qi, last_call, last_update, raised, trades, record>>

\* self.strategy.on_quote(self.market, self.portfolio) is entered
InvokeOnQuote ==
    /\ pc = "apply"
    /\ qi > Len(data_batches[bi])
    /\ on_quote_calls' = [on_quote_calls EXCEPT ![bi] = @ + 1]
    /\ pc' = "strategy"
    /\ UNCHANGED <<toolvars, evalvars, csv, builder, universe, data_batches, quotes, cash, positions,
                   nav_history, bi, qi, last_call, last_update, raised, trades, record>>

Call(op, product, quantity, r) ==
    [op |-> op, product |-> product, quantity |-> quantity, outcome |-> "returned",
     result |-> r.result]

\* the strategy calls portfolio.buy(product, quantity)
Buy(product, quantity) ==
    /\ pc = "strategy"
    /\ trades < MaxTrades
    /\ product \in DOMAIN quotes
    /\ LET r == buy(quotes, cash, positions, product, quantity)
       IN /\ cash' = r.cash
          /\ positions' = r.positions
          /\ last_call' = Call("buy", product, quantity, r)
    /\ trades' = trades + 1
    /\ UNCHANGED <<toolvars, evalvars, csv, builder, pc, universe, data_batches, quotes, nav_history,
                   bi, qi, on_quote_calls, last_update, raised, record>>

\* the strategy calls portfolio.sell(product, quantity)
Sell(product, quantity) ==
    /\ pc = "strategy"
    /\ trades < MaxTrades
    /\ product \in DOMAIN quotes
    /\ LET r == sell(quotes, cash, positions, product, quantity)
       IN /\ cash' = r.cash
          /\ positions' = r.positions
          /\ last_call' = Call("sell", product, quantity, r)
    /\ trades' = trades + 1
    /\ UNCHANGED <<toolvars, evalvars, csv, builder, pc, universe, data_batches, quotes, nav_history,
                   bi, qi, on_quote_calls, last_update, raised, record>>

\* variant: _get_price does not raise for a product without a quote, and the
\* trade is booked in positions
TradeUnquoted_commits(op, product, handled) ==
    /\ pc = "strategy"
    /\ trades < MaxTrades
    /\ product \notin DOMAIN quotes
    /\ last_call' = [op |-> op, product |-> product, quantity |-> 0,
                     outcome |-> "ValueError", result |-> FALSE]
    /\ positions' = SetQty(positions, product, GetQty(positions, product))
    /\ trades' = trades + 1
    /\ IF handled THEN UNCHANGED <<pc, raised>>
       ELSE pc' = "record" /\ raised' = raised \cup {bi}
    /\ UNCHANGED <<toolvars, evalvars, csv, builder, universe, data_batches, quotes, cash,
                   nav_history, bi, qi, on_quote_calls, last_update, record>>

\* buy or sell of a product without a quote: _get_timestamp raises ValueError,
\* which the strategy handles or lets escape from on_quote
TradeUnquoted(op, product, handled) ==
    /\ pc = "strategy"
    /\ trades < MaxTrades
    /\ product \notin DOMAIN quotes
    /\ last_call' = [op |-> op, product |-> product, quantity |-> 0,
                     outcome |-> "ValueError", result |-> FALSE]
    /\ trades' = trades + 1
    /\ IF handled THEN UNCHANGED <<pc, raised>>
       ELSE pc' = "record" /\ raised' = raised \cup {bi}
    /\ UNCHANGED <<toolvars, evalvars, csv, builder, universe, data_batches, quotes, cash, positions,
                   nav_history, bi, qi, on_quote_calls, last_update, record>>

\* on_quote returns
OnQuoteReturn ==
    /\ pc = "strategy"
    /\ pc' = "record"
    /\ UNCHANGED <<toolvars, evalvars, csv, builder, universe, data_batches, quotes, cash, positions,
                   nav_history, bi, qi, last_call, on_quote_calls, last_update,
                   raised, trades, record>>

\* variant: there is no try/except around on_quote; the exception leaves run()
\* and evaluate_submission, and lambda_handler writes the error record
OnQuoteRaise_propagates ==
    /\ pc = "strategy"
    /\ raised' = raised \cup {bi}
    /\ record' = ErrorRecord
    /\ pc' = "failed"
    /\ UNCHANGED <<toolvars, evalvars, csv, builder, universe, data_batches, quotes, cash, positions,
                   nav_history, bi, qi, last_call, on_quote_calls, last_update,
                   trades>>

\* on_quote raises an Exception: run() logs it and goes on
OnQuoteRaise ==
    /\ pc = "strategy"
    /\ raised' = raised \cup {bi}
    /\ pc' = "record"
    /\ UNCHANGED <<toolvars, evalvars, csv, builder, universe, data_batches, quotes, cash, positions,
                   nav_history, bi, qi, last_call, on_quote_calls, last_update,
                   trades, record>>

\* self.nav_history.append(self.portfolio._net_asset_value()); next batch
RecordNav ==
    /\ pc = "record"
    /\ nav_history' = Append(nav_history, _net_asset_value(quotes, cash, positions))
    /\ bi' = bi + 1
    /\ qi' = 1
    /\ pc' = LoopAt(bi + 1)
    /\ UNCHANGED <<toolvars, evalvars, csv, builder, universe, data_batches, quotes, cash, positions,
                   last_call, on_quote_calls, last_update, raised, trades, record>>

\* the item evaluate_submission builds after engine.run()
MetricsItem ==
    LET final_nav == _net_asset_value(quotes, cash, positions)
        sharpe == calculate_sharpe_ratio(nav_history)
    IN [kind |-> "metrics",
        score |-> sharpe,
        sharpe_ratio |-> sharpe,
        pnl |-> FSub(final_nav, Num(initial_cash)),
        percent_return |-> [nan |-> final_nav.nan, n |-> final_nav.v - initial_cash,
                            d |-> initial_cash],
        final_nav |-> final_nav,
        universe |-> universe,
        samples |-> Len(nav_history)]

\* Decimal(str(round(x, n))) of a NaN is Decimal('NaN'): the item is built, and
\* what the table does with a NaN number is up to the table
HasNaN(i) ==
    i.score = SharpeNaN \/ i.final_nav.nan \/ i.pnl.nan \/ i.percent_return.nan

\* evaluate_submission after engine.run(): the metrics item is put in the table
WriteMetrics ==
    /\ pc = "metrics"
    /\ record' = MetricsItem
    /\ pc' = "completed"
    /\ UNCHANGED <<toolvars, evalvars, csv, builder, universe, data_batches, quotes, cash, positions,
                   nav_history, bi, qi, last_call, on_quote_calls, last_update,
                   raised, trades>>

\* table.put_item raises on an item with a NaN number; the exception leaves
\* evaluate_submission and lambda_handler writes the error record
WriteMetricsRejected ==
    /\ pc = "metrics"
    /\ HasNaN(MetricsItem)
    /\ record' = ErrorRecord
    /\ pc' = "failed"
    /\ UNCHANGED <<toolvars, evalvars, csv, builder, universe, data_batches, quotes, cash, positions,
                   nav_history, bi, qi, last_call, on_quote_calls, last_update,
                   raised, trades>>

Next ==
    \/ LoadSubmissionFails
    \/ Ingest
    \/ IngestFails
    \/ Construct
    \/ ConstructFails
    \/ RunBegin
    \/ UpdateMarket
    \/ InvokeOnQuote
    \/ \E product \in TradeProducts, quantity \in Quantities : Buy(product, quantity)
    \/ \E product \in TradeProducts, quantity \in Quantities : Sell(product, quantity)
    \/ \E op \in {"buy", "sell"}, product \in TradeProducts, handled \in BOOLEAN :
          TradeUnquoted(op, product, handled)
    \/ OnQuoteReturn
    \/ OnQuoteRaise
    \/ RecordNav
    \/ WriteMetrics
    \/ WriteMetricsRejected

Spec == Init /\ [][Next]_vars

----------------------------------------------------------------------------
(* The vectorized evaluation: src/evaluation.py, driven by main() of        *)
(* infra/entrypoint_eval.py.  Returns and costs are kept in units of        *)
(* 1/10000 (basis points), in which cost_bps / 10000 is cost_bps; the       *)
(* close prices of the model make every return a whole number of them.      *)

\* compute_returns: px.pct_change().fillna(0.0)
compute_returns(px) ==
    [t \in 1..Len(px) |-> IF t = 1 THEN 0
                          ELSE ((px[t] - px[t - 1]) * 10000) \div px[t - 1]]

\* s.fillna(0): a missing or NaN signal is no position
fillna(s) == [t \in 1..Len(s) |-> IF s[t].nan THEN 0 ELSE s[t].v]

\* variant: the signal is applied to the bar it was computed on
shift_none(s) == s

\* s.shift(1).fillna(0.0)
shift(s) == [t \in 1..Len(s) |-> IF t = 1 THEN 0 ELSE s[t - 1]]

\* s.diff().abs().fillna(0.0)
diff_abs(s) == [t \in 1..Len(s) |-> IF t = 1 THEN 0 ELSE Abs(s[t] - s[t - 1])]

apply_signals_to_returns(returns, sigs, cost) ==
    LET s == fillna(sigs)
        pos == shift(s)
        turnover == diff_abs(s)
    IN [t \in 1..Len(returns) |-> pos[t] * returns[t] - turnover[t] * cost]

RECURSIVE SeqSum(_)
SeqSum(s) == IF s = <<>> THEN 0 ELSE Head(s) + SeqSum(Tail(s))

\* sharpe(returns), by kind: 0.0 when the standard deviation (ddof=1) is not
\* finite (fewer than two returns) or below eps (all returns equal)
sharpe(returns) ==
    IF Len(returns) < 2 \/ \A t \in 1..Len(returns) : returns[t] = returns[1]
    THEN SharpeZero ELSE SharpeFinite

\* evaluate(signals, df, cost_bps): the strategy returns, the score and the turnover
evaluate(sigs, frame, cost) ==
    LET ret == compute_returns(frame.close)
        aligned_signals == fillna(sigs)
        strat == apply_signals_to_returns(ret, sigs, cost)
    IN [kind |-> "metrics",
        strat |-> strat,
        total_return |-> SeqSum(strat),
        sharpe |-> sharpe(strat),
        turnover |-> SeqSum(diff_abs(aligned_signals)),
        score |-> sharpe(strat)]

ClosePrices == {100, 200}
SignalValues == {Num(-1), Num(0), Num(1), NaN}
\* signal series, indexed as the frame they are computed from
SignalSeries == UNION {[1..n -> SignalValues] : n \in 1..MaxBars}
CostBps == {1, 5}
Timeouts == {0, 1}

Frames ==
    {[columns |-> {"timestamp", "close"}, close |-> px] :
        px \in UNION {[1..n -> ClosePrices] : n \in 1..MaxBars}}
    \cup {[columns |-> {"timestamp"}, close |-> <<>>]}

\* the engine of the event-driven path is not part of this run
EngineIdle ==
    /\ csv = BadCsv
    /\ builder = "ok"
    /\ pc = "idle"
    /\ universe = <<>>
    /\ data_batches = <<>>
    /\ quotes = EmptyMap
    /\ cash = 0
    /\ positions = EmptyMap
    /\ nav_history = <<>>
    /\ bi = 0
    /\ qi = 0
    /\ last_call = NoCall
    /\ on_quote_calls = <<>>
    /\ last_update = EmptyMap
    /\ raised = {}
    /\ trades = 0
    /\ record = NoRecord

EvalInit ==
    /\ EngineIdle
    /\ ToolsIdle
    /\ df \in Frames
    /\ signals = <<>>
    /\ cost_bps \in CostBps
    /\ timeout_seconds \in Timeouts
    /\ elapsed = 0
    /\ mainpc = "start"
    /\ metrics = NoMetrics
    /\ item = NoRecord
    /\ warned = FALSE

\* the wall clock advances while main() runs
Tick ==
    /\ mainpc \in {"start", "evaluated", "written"}
    /\ elapsed < MaxElapsed
    /\ elapsed' = elapsed + 1
    /\ UNCHANGED <<toolvars, enginevars, df, signals, cost_bps, timeout_seconds, mainpc,
                   metrics, item, warned>>

\* the test data has no close column: main() raises KeyError
LoadFails ==
    /\ mainpc = "start"
    /\ "close" \notin df.columns
    /\ mainpc' = "crashed"
    /\ UNCHANGED <<toolvars, enginevars, df, signals, cost_bps, timeout_seconds, elapsed,
                   metrics, item, warned>>

\* signals = strategy.generate_signals(df); metrics = evaluate(signals, df, ...)
Evaluate(sigs) ==
    /\ mainpc = "start"
    /\ "close" \in df.columns
    /\ Len(sigs) = Len(df.close)
    /\ signals' = sigs
    /\ metrics' = evaluate(sigs, df, cost_bps)
    /\ mainpc' = "evaluated"
    /\ UNCHANGED <<toolvars, enginevars, df, cost_bps, timeout_seconds, elapsed, item, warned>>

\* variant: the timeout is tested before the item is written, and ends the run
PutItem_timed ==
    /\ mainpc = "evaluated"
    /\ IF timeout_seconds # 0 /\ elapsed > timeout_seconds
       THEN /\ mainpc' = "crashed"
            /\ warned' = TRUE
            /\ UNCHANGED item
       ELSE /\ item' = [kind |-> "item", metrics |-> metrics, score |-> metrics.score]
            /\ mainpc' = "written"
            /\ UNCHANGED warned
    /\ UNCHANGED <<toolvars, enginevars, df, signals, cost_bps, timeout_seconds, elapsed, metrics>>

\* ddb.put_item(Item=item), then the ok line is printed
PutItem ==
    /\ mainpc = "evaluated"
    /\ item' = [kind |-> "item", metrics |-> metrics, score |-> metrics.score]
    /\ mainpc' = "written"
    /\ UNCHANGED <<toolvars, enginevars, df, signals, cost_bps, timeout_seconds, elapsed,
                   metrics, warned>>

\* if TIMEOUT_SECONDS and time.time() - t0 > TIMEOUT_SECONDS: print the warning
TimeoutCheck ==
    /\ mainpc = "written"
    /\ warned' = (timeout_seconds # 0 /\ elapsed > timeout_seconds)
    /\ mainpc' = "done"
    /\ UNCHANGED <<toolvars, enginevars, df, signals, cost_bps, timeout_seconds, elapsed,
                   metrics, item>>

EvalNext ==
    \/ Tick
    \/ LoadFails
    \/ \E sigs \in SignalSeries : Evaluate(sigs)
    \/ PutItem
    \/ TimeoutCheck

EvalSpec == EvalInit /\ [][EvalNext]_vars

----------------------------------------------------------------------------
(* Ingestion alone, over a wider set of test data files: rows out of time   *)
(* order, time keys of one and of two digits, repeated (time, product)      *)
(* rows, empty, "NaN" and non-numeric cells, and rows cut short.            *)

IngestWideRowPool ==
    { <<"1", "100", "50">>, <<"2", "50", "100">>, <<"10", "50", "">>,
      <<"2", "abc", "NaN">>, <<"1", "50", None>> }

IngestLongRowPool ==
    { <<"1", "A", "100">>, <<"1", "A", "50">>, <<"2", "A", "50">>, <<"10", "B", "50">>,
      <<"2", "B", "NaN">>, <<"1", "B", "abc">>, <<"2", "A", None>> }

TimeCols == {"timestep", "timestamp"}

IngestCsvs ==
    {[utf8 |-> TRUE, headers |-> <<tc, "A", "B">>, rows |-> rs] :
        tc \in TimeCols, rs \in SeqsUpTo(IngestWideRowPool, MaxRows)}
    \cup {[utf8 |-> TRUE, headers |-> <<tc, "product_id", "mid_price">>, rows |-> rs] :
        tc \in TimeCols, rs \in SeqsUpTo(IngestLongRowPool, MaxRows)}

IngestInit ==
    /\ csv \in IngestCsvs
    /\ builder = "ok"
    /\ pc = "ingest"
    /\ universe = <<>>
    /\ data_batches = <<>>
    /\ quotes = EmptyMap
    /\ cash = 0
    /\ positions = EmptyMap
    /\ nav_history = <<>>
    /\ bi = 0
    /\ qi = 0
    /\ last_call = NoCall
    /\ on_quote_calls = <<>>
    /\ last_update = EmptyMap
    /\ raised = {}
    /\ trades = 0
    /\ record = NoRecord
    /\ EvalIdle
    /\ ToolsIdle

IngestNext == Ingest \/ IngestFails

IngestSpec == IngestInit /\ [][IngestNext]_vars

----------------------------------------------------------------------------
(* Vocabulary of the properties.  Amounts are recomputed here from the state, *)
(* not through the operators of Portfolio_local.                              *)

SumOver(S, F(_)) ==
    LET RECURSIVE Acc(_)
        Acc(T) == IF T = {} THEN 0
                  ELSE LET x == CHOOSE y \in T : TRUE IN F(x) + Acc(T \ {x})
    IN Acc(S)

\* a step in which the strategy's buy/sell call on a quoted product returns
TradeStep == /\ trades' = trades + 1
             /\ last_call'.outcome = "returned"

\* the signed quantity the call of a TradeStep asks for
Delta == IF last_call'.op = "buy" THEN last_call'.quantity ELSE -last_call'.quantity

PriceOf(p) == quotes[p].price.v

\* the positions and cash the call of a TradeStep would leave
ProjectedQty(p) ==
    (IF p \in DOMAIN positions THEN positions[p] ELSE 0)
    + (IF p = last_call'.product THEN Delta ELSE 0)
ProjectedHeld == DOMAIN positions \cup {last_call'.product}
ProjectedCash == cash - PriceOf(last_call'.product) * Delta
ProjectedGross ==
    LET E(p) == Abs(ProjectedQty(p)) * PriceOf(p) IN SumOver(ProjectedHeld, E)
ProjectedNav ==
    LET V(p) == ProjectedQty(p) * PriceOf(p) IN ProjectedCash + SumOver(ProjectedHeld, V)

\* gross / max(nav, 1e-8) > limit, for integer amounts
Exceeds(gross, nav, limit) ==
    IF nav >= 1 THEN gross > limit * nav ELSE gross > 0

----------------------------------------------------------------------------
(* C1. Admission atomicity: a buy or sell whose projected post-trade        *)
(* leverage exceeds leverage_limit returns False, without an exception,     *)
(* and leaves cash and the positions map exactly as they were.              *)

C1_AdmissionAtomicity ==
    [][(TradeStep /\ Exceeds(ProjectedGross, ProjectedNav, leverage_limit))
         => /\ last_call'.result = FALSE
            /\ cash' = cash
            /\ positions' = positions]_vars

\* a call was rejected while the portfolio held a position
C1_Witness ==
    /\ last_call.outcome = "returned"
    /\ last_call.result = FALSE
    /\ \E p \in DOMAIN positions : positions[p] # 0

----------------------------------------------------------------------------
(* C2. Right after a buy or sell that returned True, the leverage that      *)
(* summary() reports, gross_exposure / max(net_value, 1e-8) at the prices   *)
(* used for admission, is at most leverage_limit.                           *)

C2_AdmittedWithinLimit ==
    [][(TradeStep /\ last_call'.result = TRUE)
         => LET lev == summary(quotes', cash', positions').leverage
            IN /\ ~lev.gross.nan
               /\ ~lev.net_value.nan
               /\ ~Exceeds(lev.gross.v, lev.net_value.v, leverage_limit)]_vars

\* an admitted short sale leaves the portfolio leveraged
C2_Witness ==
    /\ last_call.op = "sell"
    /\ last_call.result = TRUE
    /\ pc = "strategy"
    /\ positions[last_call.product] < 0
    /\ summary(quotes, cash, positions).leverage.gross.v > 0

----------------------------------------------------------------------------
(* C3. A buy or sell on a quoted product is admitted exactly when the       *)
(* projected leverage, gross exposure over all products of the post-trade   *)
(* positions divided by max(post-trade NAV, epsilon), is <= leverage_limit  *)
(* (boundary included).  Admitted, it returns True and commits cash -/+     *)
(* price * q and position +/- q (shorts allowed); a trade on one product is *)
(* rejected when the exposure combined with the other products breaches the *)
(* limit.                                                                   *)

C3_AdmissionRule ==
    [][TradeStep
         => /\ last_call'.result = (~Exceeds(ProjectedGross, ProjectedNav, leverage_limit))
            /\ (last_call'.result = TRUE)
                 => /\ cash' = ProjectedCash
                    /\ DOMAIN positions' = ProjectedHeld
                    /\ \A p \in ProjectedHeld : positions'[p] = ProjectedQty(p)]_vars

\* the portfolio sits exactly at the limit with one product, and a trade on the
\* other product, small enough to be admitted on its own, was rejected
C3_Witness ==
    /\ last_call.outcome = "returned"
    /\ last_call.result = FALSE
    /\ pc = "strategy"
    /\ \E p \in DOMAIN positions :
          /\ p # last_call.product
          /\ Abs(positions[p]) * PriceOf(p) = leverage_limit * initial_cash
          /\ cash + positions[p] * PriceOf(p) = initial_cash
    /\ last_call.quantity * PriceOf(last_call.product) <= leverage_limit * initial_cash
    /\ \A p \in DOMAIN positions : p = last_call.product => positions[p] = 0

----------------------------------------------------------------------------
(* C4. Ledger consistency: at every point where the engine samples NAV, the *)
(* recorded value equals cash + sum over held products of quantity * last   *)
(* known price of that product.                                             *)

C4_LedgerConsistency ==
    [][nav_history' # nav_history
         => LET sample == nav_history'[Len(nav_history')]
                V(p) == positions'[p] * last_update'[p].price.v
            IN /\ ~sample.nan
               /\ sample.v = cash' + SumOver(DOMAIN positions', V)]_vars

\* a sample was just taken of a portfolio with a short position whose value moved
C4_Witness ==
    /\ Len(nav_history) >= 3
    /\ qi = 1
    /\ nav_history[Len(nav_history)].v # nav_history[Len(nav_history) - 1].v
    /\ \E p \in DOMAIN positions : positions[p] < 0

----------------------------------------------------------------------------
(* C5. In every Market state, after any sequence of update(quote) calls,    *)
(* quotes has no entry for "Clock" and holds, for every other product id,   *)
(* exactly the quote most recently passed to update for that id; update     *)
(* with a Clock quote leaves quotes unchanged.                              *)

C5_State ==
    /\ "Clock" \notin DOMAIN quotes
    /\ DOMAIN quotes = DOMAIN last_update \ {"Clock"}
    /\ \A p \in DOMAIN quotes : quotes[p] = last_update[p]

\* a step that passes a Clock quote to update
ClockUpdate == /\ pc = "apply"
               /\ qi' = qi + 1
               /\ data_batches[bi][qi].id = "Clock"

\* C5: quotes is the latest non-Clock quote per id, and a Clock update changes nothing
C5_MarketQuotes == []C5_State /\ [][ClockUpdate => quotes' = quotes]_vars

\* Clock quotes were passed to update, and a product's first quote was replaced
C5_Witness ==
    /\ "Clock" \in DOMAIN last_update
    /\ pc = "strategy"
    /\ \E p \in DOMAIN quotes : \E k \in 1..Len(data_batches[1]) :
          /\ data_batches[1][k].id = p
          /\ data_batches[1][k] # quotes[p]

----------------------------------------------------------------------------
(* C6. Failure isolation: if on_quote raises an exception on batch k, it    *)
(* does not propagate out of run(); a NAV sample is still appended for      *)
(* batch k, every later batch is still applied to the Market, on_quote is   *)
(* still invoked for it and it contributes its NAV sample; the portfolio    *)
(* mutations made before the exception are kept.  (Exception is the class   *)
(* that run() catches.)                                                     *)

\* the quotes of batches 1..n, in order
RECURSIVE Flatten(_, _)
Flatten(batches, n) ==
    IF n = 0 THEN <<>> ELSE Flatten(batches, n - 1) \o batches[n]

\* the last quote with id p of a list of quotes that has one
LatestOf(qs, p) ==
    qs[CHOOSE i \in 1..Len(qs) :
          /\ qs[i].id = p
          /\ \A j \in (i + 1)..Len(qs) : qs[j].id # p]

QuotedIn(qs) == {qs[i].id : i \in 1..Len(qs)} \ {"Clock"}

\* the Market holds exactly the latest quote per product of the list qs
MarketIs(qs) ==
    /\ DOMAIN quotes = QuotedIn(qs)
    /\ \A p \in DOMAIN quotes : quotes[p] = LatestOf(qs, p)

\* the run is inside the loop of run(), or between run() and the metrics
InRun == /\ pc \in {"apply", "strategy", "record", "metrics"}
         /\ pc # "metrics" => bi \in 1..Len(data_batches)

\* After run() has returned the item is put in the table; the one way such a
\* run still ends with the error record is the table refusing a NaN number.
C6_State ==
    /\ (raised # {} /\ pc \notin {"completed", "failed"}) => InRun
    /\ \A k \in raised :
        /\ bi > k => Len(nav_history) >= k + 1
        /\ pc \in {"completed", "failed"}
             => /\ Len(nav_history) = 1 + Len(data_batches)
                /\ \A b \in (k + 1)..Len(data_batches) : on_quote_calls[b] = 1
                /\ MarketIs(Flatten(data_batches, Len(data_batches)))
        /\ pc = "completed" => record.kind = "metrics"
        /\ pc = "failed" => HasNaN(MetricsItem)

\* C6: a raising on_quote neither aborts the run nor rolls the portfolio back
C6_FailureIsolation ==
    []C6_State /\ [][raised' # raised
                       => /\ pc' = "record"
                          /\ cash' = cash
                          /\ positions' = positions]_vars

\* on_quote raised on the first of several batches after a trade, and the run completed
C6_Witness ==
    /\ pc = "completed"
    /\ 1 \in raised
    /\ Len(data_batches) >= 2
    /\ nav_history[2] # nav_history[Len(nav_history)]
    /\ \E p \in DOMAIN positions : positions[p] # 0

----------------------------------------------------------------------------
(* C7. For each batch, in order: every quote of the batch is applied to the *)
(* Market in batch order, then on_quote is invoked exactly once, then       *)
(* exactly one NAV sample is appended; batches are processed in sequence,   *)
(* and after a completed run nav_history is [initial_cash] followed by one  *)
(* sample per batch, never shortened or rewritten.                          *)

\* the quotes the loop has applied when it is at quote qi of batch bi
AppliedPrefix == Flatten(data_batches, bi - 1) \o SubSeq(data_batches[bi], 1, qi - 1)

C7_State ==
    /\ pc \in {"apply", "strategy", "record"}
         => /\ bi \in 1..Len(data_batches)
            /\ qi \in 1..(Len(data_batches[bi]) + 1)
            /\ pc # "apply" => qi = Len(data_batches[bi]) + 1
            /\ MarketIs(AppliedPrefix)
            /\ Len(nav_history) = bi
            /\ nav_history[1] = Num(initial_cash)
            /\ \A b \in 1..Len(data_batches) :
                  on_quote_calls[b] = IF b < bi \/ (b = bi /\ pc # "apply") THEN 1 ELSE 0
    /\ (pc \in {"metrics", "completed"} /\ builder = "ok")
         => /\ Len(nav_history) = 1 + Len(data_batches)
            /\ nav_history[1] = Num(initial_cash)
            /\ \A b \in 1..Len(data_batches) : on_quote_calls[b] = 1

C7_Step ==
    /\ bi' \in {bi, bi + 1}
    /\ nav_history # <<>>
         => \/ nav_history' = nav_history
            \/ /\ Len(nav_history') = Len(nav_history) + 1
               /\ SubSeq(nav_history', 1, Len(nav_history)) = nav_history
               /\ pc = "record"

\* C7: quotes, then one on_quote, then one NAV sample, batch after batch
C7_BatchSequence == []C7_State /\ [][C7_Step]_vars

\* a run over two batches, one of them with several product quotes, completed
C7_Witness ==
    /\ pc = "completed"
    /\ builder = "ok"
    /\ Len(data_batches) >= 2
    /\ \E b \in 1..Len(data_batches) : Len(data_batches[b]) >= 3

----------------------------------------------------------------------------
(* C8. No look-ahead: when on_quote is invoked for batch i the Market holds *)
(* only quotes of batches 1..i; no quote of a later batch has been applied. *)

C8_NoLookAhead ==
    pc = "strategy"
      => /\ \A p \in DOMAIN quotes :
               /\ p \in QuotedIn(Flatten(data_batches, bi))
               /\ quotes[p] = LatestOf(Flatten(data_batches, bi), p)
         /\ \A b \in (bi + 1)..Len(data_batches) : \A k \in 1..Len(data_batches[b]) :
               data_batches[b][k].id \notin QuotedIn(Flatten(data_batches, bi))
                 => data_batches[b][k].id \notin DOMAIN quotes

\* on_quote runs while a later batch holds a different quote of a product in the Market
C8_Witness ==
    /\ pc = "strategy"
    /\ bi < Len(data_batches)
    /\ \E k \in 1..Len(data_batches[bi + 1]) :
          /\ data_batches[bi + 1][k].id \in DOMAIN quotes
          /\ data_batches[bi + 1][k] # quotes[data_batches[bi + 1][k].id]

----------------------------------------------------------------------------
(* C9. A fatal initialization failure - the strategy factory raising, or    *)
(* there being no batches to run - moves the run directly to a terminal     *)
(* Failed state: no on_quote call and no trade occurs, and no metrics       *)
(* record is produced for it.                                               *)

\* the run has been found to have nothing to replay
NoBatches == pc # "ingest" /\ csv.utf8 /\ Len(data_batches) = 0

\* C9: a failed factory or an empty batch list never leads to a metrics record
C9_FatalInitFails ==
    (builder = "raises" \/ NoBatches)
      => /\ record.kind # "metrics"
         /\ pc # "completed"
         /\ trades = 0
         /\ \A b \in 1..Len(on_quote_calls) : on_quote_calls[b] = 0

----------------------------------------------------------------------------
(* C10. Ingestion of a CSV whose header has neither a timestep nor a        *)
(* timestamp column fails with a fatal schema error: no universe/batches    *)
(* are returned and no backtest is run on that input.                       *)

NoTimeColumn == csv.utf8 /\ ~HasKey(csv, "timestep") /\ ~HasKey(csv, "timestamp")

\* C10: without a time column nothing is returned and nothing is run
C10_MissingTimeColumnFatal ==
    NoTimeColumn
      => /\ universe = <<>>
         /\ data_batches = <<>>
         /\ pc \in {"ingest", "failed"}
         /\ record.kind # "metrics"

----------------------------------------------------------------------------
(* Vocabulary of the ingestion properties *)

\* read_and_batch_csv_data has returned: universe and data_batches hold its result
Ingested == pc = "construct"

IsLong(c) == HasKey(c, "product_id")

\* the product quotes of a batch, in batch order
Products(batch) == LET NotClock(q) == q.id # "Clock" IN SelectSeq(batch, NotClock)

\* the time key a batch is closed with
TimeKeyOf(batch) == batch[Len(batch)].timestep

\* the integer a time key of the test data denotes
TimeValue(ts) ==
    CASE ts = "1" -> 1
      [] ts = "2" -> 2
      [] ts = "10" -> 10

\* non-decreasing as integers, or else as the strings the reader compares
NonDecreasingTime(batches) ==
    \/ \A i \in 1..(Len(batches) - 1) :
          TimeValue(TimeKeyOf(batches[i])) <= TimeValue(TimeKeyOf(batches[i + 1]))
    \/ \A i \in 1..(Len(batches) - 1) :
          ~StrLess(TimeKeyOf(batches[i + 1]), TimeKeyOf(batches[i]))

AscendingProducts(batch) ==
    \A i \in 1..(Len(Products(batch)) - 1) :
        ~StrLess(Products(batch)[i + 1].id, Products(batch)[i].id)

----------------------------------------------------------------------------
(* C11. For every input CSV (long or wide, rows in any file order, integer  *)
(* time keys) the batches returned by ingestion are in non-decreasing       *)
(* time_key order, and within each batch the product quotes are in          *)
(* ascending product_id order.                                              *)

\* C11: batches ordered by time key (under either order), quotes by product id
C11_BatchOrder ==
    Ingested
      => /\ NonDecreasingTime(data_batches)
         /\ \A b \in 1..Len(data_batches) : AscendingProducts(data_batches[b])

----------------------------------------------------------------------------
(* C12. In every batch produced by ingestion no product_id occurs in more   *)
(* than one quote, also when the input has several rows for one product and *)
(* time key, and no two batches share a time_key.                           *)

\* C12: one quote per product in a batch, one batch per time key
C12_NoDuplicates ==
    Ingested
      => /\ \A b \in 1..Len(data_batches) :
               \A i, j \in 1..Len(data_batches[b]) :
                   data_batches[b][i].id = data_batches[b][j].id => i = j
         /\ \A a, b \in 1..Len(data_batches) :
               TimeKeyOf(data_batches[a]) = TimeKeyOf(data_batches[b]) => a = b

----------------------------------------------------------------------------
(* C13. Every batch produced by ingestion contains exactly one Clock quote, *)
(* it is the last element of the batch, it carries the batch's time_key,    *)
(* and every other quote of the batch carries that same time_key.           *)

\* the time keys of the rows of the test data
TimeKeysOf(c) == {Get(c, c.rows[i], time_col(c)) : i \in 1..Len(c.rows)}

ClockClosed(batch) ==
    /\ Len(batch) >= 1
    /\ batch[Len(batch)].id = "Clock"
    /\ \A i \in 1..(Len(batch) - 1) :
          /\ batch[i].id # "Clock"
          /\ batch[i].timestep = batch[Len(batch)].timestep

\* C13: each batch is closed by its one Clock, which carries the row time key all its quotes share
C13_ClockTerminated ==
    Ingested
      => \A b \in 1..Len(data_batches) :
            /\ ClockClosed(data_batches[b])
            /\ TimeKeyOf(data_batches[b]) \in TimeKeysOf(csv)

\* a long file gave two batches of different time keys
C13_Witness ==
    /\ Ingested
    /\ IsLong(csv)
    /\ Len(data_batches) = 2
    /\ TimeKeyOf(data_batches[1]) # TimeKeyOf(data_batches[2])
    /\ \E b \in 1..2 : Len(data_batches[b]) >= 2

----------------------------------------------------------------------------
(* C14. Format invariance: for a long-format and a wide-format input that   *)
(* describe the same (time, product, price) data - unsorted rows,           *)
(* missing/NaN cells and repeated time keys included - ingestion returns    *)
(* the same universe and the same batch sequence.                           *)

\* the cells of a wide row as long rows, one per product column that holds text
RECURSIVE MeltRow(_, _, _)
MeltRow(c, row, hs) ==
    IF hs = <<>> THEN <<>>
    ELSE (IF Head(hs) # time_col(c) /\ Cell(c, row, Head(hs)) \notin {None, ""}
          THEN <<<<Cell(c, row, time_col(c)), Head(hs), Cell(c, row, Head(hs))>>>>
          ELSE <<>>) \o MeltRow(c, row, Tail(hs))

RECURSIVE MeltRows(_, _)
MeltRows(c, rows) ==
    IF rows = <<>> THEN <<>>
    ELSE MeltRow(c, Head(rows), c.headers) \o MeltRows(c, Tail(rows))

\* the long file that holds the data of the wide file c, in the same row order
Melt(c) == [utf8 |-> TRUE,
            headers |-> <<time_col(c), "product_id", "mid_price">>,
            rows |-> MeltRows(c, c.rows)]

\* C14: a wide file and the long file of the same data are read alike
C14_FormatInvariance ==
    (Ingested /\ ~IsLong(csv))
      => /\ ~read_raises(Melt(csv))
         /\ read_and_batch_csv_data(Melt(csv)).universe = universe
         /\ read_and_batch_csv_data(Melt(csv)).batches = data_batches

----------------------------------------------------------------------------
(* C15. A long row or wide cell whose price fails numeric parsing is        *)
(* skipped and contributes no quote, every other well-formed row still      *)
(* contributes its quote, and a single malformed row never aborts           *)
(* ingestion.                                                               *)

\* float() accepts the text of the cell
Parses(cell) == cell # None /\ "error" \notin DOMAIN float(cell)

\* the quotes the well-formed rows (long) or cells (wide) of the file stand for
ExpectedQuotes(c) ==
    IF IsLong(c)
    THEN {Quote(Cell(c, c.rows[i], "product_id"), Cell(c, c.rows[i], time_col(c)),
                float(Cell(c, c.rows[i], price_col))) :
             i \in {k \in 1..Len(c.rows) : Parses(Cell(c, c.rows[k], price_col))}}
    ELSE UNION {{Quote(h, Cell(c, c.rows[i], time_col(c)), float(Cell(c, c.rows[i], h))) :
                    h \in {g \in {c.headers[n] : n \in 1..Len(c.headers)} \ {time_col(c)} :
                              /\ Cell(c, c.rows[i], g) \notin {"", "NaN"}
                              /\ Parses(Cell(c, c.rows[i], g))}} :
                i \in 1..Len(c.rows)}

\* C15: malformed rows give no quote, the others give theirs, ingestion goes on
C15_MalformedRowSkipped ==
    /\ csv.utf8 => pc # "failed"
    /\ Ingested
         => {q \in UNION {{data_batches[b][k] : k \in 1..Len(data_batches[b])} :
                              b \in 1..Len(data_batches)} : q.id # "Clock"}
            = ExpectedQuotes(csv)

----------------------------------------------------------------------------
(* C16. A wide-format row that yields zero product quotes (all cells empty, *)
(* "NaN" or unparseable) produces no batch; no batch returned by ingestion  *)
(* is empty or consists of a Clock quote alone.                             *)

\* the wide row holds a cell that gives a quote
Usable(c, row) ==
    \E n \in 1..Len(c.headers) :
        /\ c.headers[n] # time_col(c)
        /\ row[n] \notin {"", "NaN"}
        /\ Parses(row[n])

\* C16: every batch has a product quote, and a wide file gives one batch per usable row
C16_NoEmptyBatch ==
    Ingested
      => /\ \A b \in 1..Len(data_batches) : Len(Products(data_batches[b])) >= 1
         /\ ~IsLong(csv)
              => Len(data_batches) = Cardinality({i \in 1..Len(csv.rows) : Usable(csv, csv.rows[i])})

\* a wide file with a row of no usable cell and a row with one was read
C16_Witness ==
    /\ Ingested
    /\ ~IsLong(csv)
    /\ Len(csv.rows) = 2
    /\ ~Usable(csv, csv.rows[1])
    /\ Usable(csv, csv.rows[2])
    /\ Len(data_batches) = 1

----------------------------------------------------------------------------
(* C17. The Sharpe calculation returns exactly 0.0 whenever the NAV history *)
(* yields fewer than 2 returns (a history of length 0, 1 or 2) or the       *)
(* return series has zero or non-finite standard deviation; it never        *)
(* returns a non-finite value for such histories.                           *)

\* C17: the Sharpe ratio of the history the run recorded is 0.0 when it is undefined
C17_SharpeZeroWhenUndefined ==
    (pc = "metrics" /\ (Len(nav_history) <= 2 \/ Std(Returns(nav_history)) # "positive"))
      => calculate_sharpe_ratio(nav_history) = SharpeZero

----------------------------------------------------------------------------
(* C18. In the vectorized evaluation the strategy return of period t is the *)
(* signal of period t-1 times the price return of period t (position 0 in   *)
(* the first period), so the result for period t depends on no signal at or *)
(* after t other than through the transaction cost, cost_bps/10000 times    *)
(* |signal[t] - signal[t-1]|; turnover is the sum of those absolute         *)
(* changes.  (The first period has no earlier signal: its change, and so    *)
(* its cost, is 0.)                                                         *)

\* the signal of period t, a missing one being 0
Sig(s, t) == IF s[t].nan THEN 0 ELSE s[t].v

\* the price return of period t, in units of 1/10000
PriceReturn(t) ==
    IF t = 1 THEN 0 ELSE ((df.close[t] - df.close[t - 1]) * 10000) \div df.close[t - 1]

\* |signal[t] - signal[t-1]|
Change(s, t) == IF t = 1 THEN 0 ELSE Abs(Sig(s, t) - Sig(s, t - 1))

Evaluated == mainpc \in {"evaluated", "written", "done"}

\* C18: shifted signal times return, less the cost of the change; changing any
\* one signal at or after t changes the result of t by the cost of t alone
C18_ShiftedSignal ==
    Evaluated
      => /\ \A t \in 1..Len(df.close) :
               /\ metrics.strat[t] =
                     (IF t = 1 THEN 0 ELSE Sig(signals, t - 1)) * PriceReturn(t)
                     - cost_bps * Change(signals, t)
               /\ mainpc = "evaluated"
                    => \A u \in t..Len(signals) : \A x \in SignalValues :
                          LET other == [signals EXCEPT ![u] = x]
                          IN apply_signals_to_returns(compute_returns(df.close), other,
                                                      cost_bps)[t]
                               + cost_bps * Change(other, t)
                             = metrics.strat[t] + cost_bps * Change(signals, t)
         /\ metrics.turnover =
               SumOver(1..Len(signals), LAMBDA t : Change(signals, t))

\* a position taken on a bar that moved earns nothing on that bar, and earns on the next
C18_Witness ==
    /\ Evaluated
    /\ Len(df.close) = 3
    /\ df.close[1] # df.close[2]
    /\ df.close[2] # df.close[3]
    /\ Sig(signals, 1) = 0
    /\ Sig(signals, 2) = 1
    /\ signals[3].nan
    /\ metrics.strat[2] = -cost_bps
    /\ metrics.strat[3] = PriceReturn(3) - cost_bps
    /\ metrics.turnover = 2

----------------------------------------------------------------------------
(* C19. For every submission the evaluator processes, the outcome is        *)
(* exactly one of: a complete metrics record (score, sharpe_ratio, pnl,     *)
(* percent_return, final_nav, universe) or a fatal-error record; a run that *)
(* failed fatally never leaves behind a metrics record carrying a partial   *)
(* or best-effort score.                                                    *)

MetricsFields == {"score", "sharpe_ratio", "pnl", "percent_return", "final_nav", "universe"}

\* the record of a run that went through: every field, computed at the end of the replay
CompleteMetrics ==
    /\ record.kind = "metrics"
    /\ MetricsFields \subseteq DOMAIN record
    /\ record.universe = universe
    /\ record.final_nav.v = cash + SumOver(DOMAIN positions,
                                            LAMBDA p : positions[p] * quotes[p].price.v)
    /\ record.pnl.v = record.final_nav.v - initial_cash
    /\ record.score = record.sharpe_ratio
    /\ builder = "ok" => /\ record.samples = 1 + Len(data_batches)
                         /\ bi = Len(data_batches) + 1

FatalErrorRecord ==
    /\ record.kind = "error"
    /\ DOMAIN record \cap (MetricsFields \ {"score"}) = {}
    /\ record.score = -999

\* C19: a finished evaluation left exactly its metrics record or the error record
C19_OneOutcome ==
    /\ pc = "completed" => CompleteMetrics
    /\ pc = "failed" => FatalErrorRecord
    /\ pc \notin {"completed", "failed"} => record = NoRecord

\* the factory raised after the test data had been read into batches
C19_Witness ==
    /\ pc = "failed"
    /\ builder = "raises"
    /\ Len(data_batches) >= 1
    /\ record.kind = "error"

----------------------------------------------------------------------------
(* C20. The wall-clock timeout is checked only after the evaluation has     *)
(* completed and its result has been written; exceeding it only emits a     *)
(* warning and never aborts the run, suppresses the result record or        *)
(* changes the score.                                                       *)

\* C20: the warning comes last, and the item written is the one evaluate() gave
C20_TimeoutAfterWrite ==
    /\ warned => /\ mainpc = "done"
                 /\ timeout_seconds # 0
                 /\ elapsed > timeout_seconds
    /\ mainpc = "crashed" => "close" \notin df.columns
    /\ mainpc \in {"written", "done"}
         => /\ item.kind = "item"
            /\ item.metrics = evaluate(signals, df, cost_bps)
            /\ item.score = evaluate(signals, df, cost_bps).score
    /\ (mainpc = "done" /\ timeout_seconds # 0 /\ elapsed > timeout_seconds) => warned

\* the timeout had passed before the item was written, and the run ended with item and warning
C20_Witness ==
    /\ warned
    /\ mainpc = "done"
    /\ item.kind = "item"
    /\ item.score = SharpeFinite
    /\ elapsed > timeout_seconds

----------------------------------------------------------------------------
(* The trade record of Portfolio_local *)

\* the fill records a Portfolio_local holds: __init__ creates cash, market,
\* positions and leverage_limit and nothing else; buy and sell commit cash and
\* positions and write a log line, no record of the fill is stored
fill_records == <<>>

\* the last buy/sell call of the strategy was admitted
Admitted == last_call.outcome = "returned" /\ last_call.result

\* C21: every admitted buy or sell appends exactly one fill record to the
\* portfolio's trade record and a rejected trade appends none: once a trade
\* has been admitted the trade record holds a fill
C21_FillPerAdmission ==
    /\ Admitted => Len(fill_records) >= 1
    /\ trades = 0 => Len(fill_records) = 0

----------------------------------------------------------------------------
(* Positions and quotes *)

\* every product held has a quote in the Market
C22_State == DOMAIN positions \subseteq DOMAIN quotes

\* a step in which the strategy's buy/sell call names a product without a quote
UnquotedCall == /\ trades' = trades + 1
                /\ last_call'.outcome = "ValueError"

\* C22: every product present in positions has a quote, so net_asset_value and
\* gross_exposure find a price for each position; a buy or sell of a product
\* that never quoted raises to the strategy, leaves cash and positions
\* unchanged and does not end the run
C22_MissingQuote ==
    []C22_State /\ [][UnquotedCall => /\ cash' = cash
                                      /\ positions' = positions
                                      /\ pc' \in {"strategy", "record"}
                                      /\ record' = record]_vars

\* a position is held, the last call named a product without a quote, and the
\* run went on to write its metrics
C22_Witness ==
    /\ pc = "completed"
    /\ last_call.outcome = "ValueError"
    /\ \E p \in DOMAIN positions : positions[p] # 0
    /\ record.kind = "metrics"

----------------------------------------------------------------------------
(* tools/submit.py: the upload of a submission folder, and the two handlers  *)
(* the S3 event of an uploaded object reaches.  A path is the sequence of    *)
(* its parts, <<"pkg", "submission.py">> for pkg/submission.py; the key of   *)
(* an uploaded file is the prefix participant/submission_id/ and its path.   *)

\* Path.name
name(path) == path[Len(path)]

\* str.endswith
endswith(s, suffix) ==
    LET a == Chars(s)
        b == Chars(suffix)
    IN /\ Len(a) >= Len(b)
       /\ SubSeq(a, Len(a) - Len(b) + 1, Len(a)) = b

\* prefix + rel, split at "/"
key_parts(rel) == <<"alice", "v1">> \o rel

files_non_trigger(files) == {p \in files : name(p) # "submission.py"}
file_trigger(files) == {p \in files : name(p) = "submission.py"}

\* the S3 case of lambda_handler of the evaluator: the keys it evaluates.  The
\* suffix has no "/", so the key ends with it when its last part does.
evaluator_accepts(rel) ==
    /\ endswith(name(rel), "submission.py")
    /\ Len(key_parts(rel)) >= 3

\* SUBMISSION_KEY_RE.match(key) of the orchestrating handler
SUBMISSION_KEY_RE(rel) ==
    /\ Len(key_parts(rel)) = 3
    /\ key_parts(rel)[3] = "submission.py"

\* the evaluations that the creation of the object starts; each finds the
\* bucket as it is once the object is there
ObjectCreated(rel, present) ==
    {e \in {[by |-> h, key |-> rel, present |-> present] :
                h \in {"evaluator", "orchestrator"}} :
        /\ e.by = "evaluator" => evaluator_accepts(rel)
        /\ e.by = "orchestrator" => SUBMISSION_KEY_RE(rel)}

PathPool == { <<"submission.py">>, <<"model.pkl">>, <<"test_submission.py">>,
              <<"pkg", "submission.py">>, <<"pkg", "utils.py">> }

Folders == SUBSET PathPool

SubmitInit ==
    /\ EngineIdle
    /\ EvalIdle
    /\ folder \in Folders
    /\ bucket = {}
    /\ submitpc = "collect"
    /\ evaluations = {}
    /\ ScoresIdle
    /\ HandlerIdle
    /\ ExtIdle
    /\ tradelog = <<>>

\* files are collected; without a submission.py the script dies
Collect ==
    /\ submitpc = "collect"
    /\ submitpc' = IF file_trigger(folder) = {} THEN "died" ELSE "first_pass"
    /\ UNCHANGED <<enginevars, evalvars, extvars, scorevars, legacyvars, handlervars, folder, bucket, evaluations>>

\* upload(p) for the next p of files_non_trigger; rglob gives the files in an
\* order that is not specified
UploadNonTrigger(p) ==
    /\ submitpc = "first_pass"
    /\ p \in files_non_trigger(folder) \ bucket
    /\ bucket' = bucket \cup {p}
    /\ evaluations' = evaluations \cup ObjectCreated(p, bucket')
    /\ UNCHANGED <<enginevars, evalvars, extvars, scorevars, legacyvars, handlervars, folder, submitpc>>

\* upload(file_trigger[0]) after the loop, and the script is done
UploadTrigger(p) ==
    /\ submitpc = "first_pass"
    /\ files_non_trigger(folder) \subseteq bucket
    /\ p \in file_trigger(folder)
    /\ bucket' = bucket \cup {p}
    /\ evaluations' = evaluations \cup ObjectCreated(p, bucket')
    /\ submitpc' = "done"
    /\ UNCHANGED <<enginevars, evalvars, extvars, scorevars, legacyvars, handlervars, folder>>

\* s3.upload_file raises: die() for the three boto exceptions caught, the
\* exception leaving main() otherwise; nothing more is uploaded
UploadFails ==
    /\ submitpc = "first_pass"
    /\ submitpc' = "died"
    /\ UNCHANGED <<enginevars, evalvars, extvars, scorevars, legacyvars, handlervars, folder, bucket, evaluations>>

SubmitNext ==
    \/ Collect
    \/ \E p \in PathPool : UploadNonTrigger(p)
    \/ \E p \in PathPool : UploadTrigger(p)
    \/ UploadFails

SubmitSpec == SubmitInit /\ [][SubmitNext]_vars

\* C23: submission.py is uploaded last: when it is in the bucket every other
\* file of the folder is, and no evaluation of the submission is triggered
\* while a file of the folder is missing from the bucket
C23_TriggerLast ==
    /\ <<"submission.py">> \in bucket => folder \subseteq bucket
    /\ \A e \in evaluations : folder \subseteq e.present

----------------------------------------------------------------------------
(* src/local_eval.py: the reader of the local evaluation *)

\* a quote as the local reader builds it: the dict literals of local_eval.py
\* hold the time under the key 'timestamp' where those of the lambda hold it
\* under 'timestep'
local_quote(q) ==
    [k \in (DOMAIN q \ {"timestep"}) \cup {"timestamp"} |->
        IF k = "timestamp" THEN q.timestep ELSE q[k]]

\* read_and_batch_csv_data of local_eval.py: statement by statement that of
\* the lambda, over the quotes of local_quote and sorted and batched by their
\* 'timestamp'
local_read_and_batch_csv_data(c) ==
    LET r == read_and_batch_csv_data(c)
    IN [universe |-> r.universe,
        batches |-> [b \in 1..Len(r.batches) |->
                        [i \in 1..Len(r.batches[b]) |-> local_quote(r.batches[b][i])]]]

\* C24: the local evaluation mimics the cloud evaluator: on the same CSV the
\* local reader gives the universe and the batches of quotes that the lambda
\* reader gives
C24_LocalMimicsCloud ==
    Ingested =>
        /\ local_read_and_batch_csv_data(csv).universe = universe
        /\ local_read_and_batch_csv_data(csv).batches = data_batches

----------------------------------------------------------------------------
(* Determinism: a second run on the same bytes with the same strategy *)

\* the lists a set can iterate to; for a set of str the order is not the same
\* in two processes
Orders(S) ==
    {o \in [1..Cardinality(S) -> S] : \A i, j \in 1..Cardinality(S) : i # j => o[i] # o[j]}

\* what a second run of the reader returns on the bytes of csv when its set
\* of product ids iterates to order
SecondRead(order) ==
    IF HasKey(csv, "product_id")
    THEN [universe |-> LongUniverseOf(order),
          batches |-> LongBatchesOf(csv, LongUniverseOf(order))]
    ELSE read_and_batch_csv_data(csv)

\* the orders the set of product ids of csv can iterate to; the wide format
\* builds no set
SetOrders == IF HasKey(csv, "product_id") THEN Orders(ProductIds(csv)) ELSE {<<>>}

\* the reader of this run has just returned
Read == pc = "construct"

\* whatever its set order, the second run reads the universe and batches of this run
C25_State ==
    Read => \A order \in SetOrders :
                /\ SecondRead(order).universe = universe
                /\ SecondRead(order).batches = data_batches

\* the second run, in the state this run is in and given the call the strategy
\* makes in this step, admits or rejects the trade as this run does and books
\* the same cash and positions; it appends the same NAV and writes the same metrics
C25_Step ==
    /\ TradeStep =>
          LET c == last_call'
              r == IF c.op = "buy" THEN buy(quotes, cash, positions, c.product, c.quantity)
                   ELSE sell(quotes, cash, positions, c.product, c.quantity)
          IN r = [result |-> c.result, cash |-> cash', positions |-> positions']
    /\ Len(nav_history') > Len(nav_history) /\ pc = "record" =>
          nav_history' = Append(nav_history, _net_asset_value(quotes, cash, positions))
    /\ record'.kind = "metrics" /\ record.kind # "metrics" => record' = MetricsItem

\* C25: two runs of ingestion plus replay on identical bytes with the same
\* deterministic strategy give identical batch sequences, trade admissions,
\* NAV histories and metrics
C25_Determinism == []C25_State /\ [][C25_Step]_vars

\* a long CSV with two product ids was read, a trade was admitted, and the
\* metrics were written
C25_Witness ==
    /\ pc = "completed"
    /\ HasKey(csv, "product_id")
    /\ Cardinality(ProductIds(csv)) = 2
    /\ Admitted
    /\ Len(nav_history) > 1

----------------------------------------------------------------------------
(* The scores table: the items the evaluator and the orchestrator put in it, *)
(* the leaderboard handler of api_lambda/app.py and the orchestrator of      *)
(* lambda_orchestrator/orchestrator_lambda.py that scan it.  An item is the  *)
(* record of the attributes its writer sets and its readers read.            *)

MaxClock == 3

\* the item evaluate_submission puts after a run
SuccessItem(participant_id, submission_id, score, t) ==
    [participant_id |-> participant_id,
     submission_id |-> submission_id,
     original_submission_id |-> submission_id,
     score |-> score,
     timestep |-> t]

\* the item lambda_handler puts when the evaluation raised
ErrorItem(participant_id, submission_id, t) ==
    [participant_id |-> participant_id,
     submission_id |-> submission_id,
     score |-> -999,
     error |-> "error",
     timestamp |-> t]

\* the item the orchestrator puts for a new test file
config_item(t) ==
    [participant_id |-> "SYSTEM_CONFIG",
     submission_id |-> "ACTIVE_TEST_KEY",
     active_test_key |-> "test.csv",
     timestamp |-> t]

\* variant: the attributes of the item are merged into the item of its key, as
\* update_item would
put_item_merge(t, it) ==
    LET key == <<it.participant_id, it.submission_id>>
        old == IF key \in DOMAIN t THEN t[key] ELSE it
        merged == [a \in DOMAIN old \cup DOMAIN it |-> IF a \in DOMAIN it THEN it[a] ELSE old[a]]
    IN [k \in DOMAIN t \cup {key} |-> IF k = key THEN merged ELSE t[k]]

\* table.put_item: the item replaces the one of its key
put_item(t, it) ==
    LET key == <<it.participant_id, it.submission_id>>
    IN [k \in DOMAIN t \cup {key} |-> IF k = key THEN it ELSE t[k]]

\* table.scan: the items, in the order the scan returns their keys
scan(t, order) == [i \in 1..Len(order) |-> t[order[i]]]

\* it.get(k): <<v>> for a value v, <<>> for None
get(it, k) == IF k \in DOMAIN it THEN <<it[k]>> ELSE <<>>

\* it.get(k, default)
get_or(it, k, default) == IF k \in DOMAIN it THEN it[k] ELSE default

MAX_ITEMS == 5000

\* the entry handler keeps for an item
Entry(it) ==
    [participant_id |-> it.participant_id,
     score |-> get_or(it, "score", 0),
     metrics |-> get(it, "metrics"),
     submission_id |-> get(it, "submission_id"),
     timestamp |-> get(it, "timestamp")]

\* sorted(entries, key=score, reverse=True); the sort is stable
sorted_by_score(entries) ==
    LET RECURSIVE Ins(_, _)
        Ins(x, t) == IF t = <<>> THEN <<x>>
                     ELSE IF x.score > t[Len(t)].score
                          THEN Ins(x, SubSeq(t, 1, Len(t) - 1)) \o <<t[Len(t)]>>
                          ELSE t \o <<x>>
        RECURSIVE Srt(_)
        Srt(t) == IF t = <<>> THEN <<>>
                  ELSE Ins(t[Len(t)], Srt(SubSeq(t, 1, Len(t) - 1)))
    IN Srt(entries)

\* variant: the entry of a participant is replaced by every later item
Better_last(score, kept) == TRUE

\* score > best[pid]["score"]
Better(score, kept) == score > kept

\* handler of the API: best is kept as the list of its values, in the order
\* the participants were first seen
handler(scanned) ==
    LET items == SubSeq(scanned, 1, IF Len(scanned) >= MAX_ITEMS THEN MAX_ITEMS
                                    ELSE Len(scanned))
        RECURSIVE Loop(_, _)
        Loop(i, best) ==
            IF i > Len(items) THEN best
            ELSE LET it == items[i]
                     e == Entry(it)
                     at == {j \in 1..Len(best) : best[j].participant_id = e.participant_id}
                 IN IF "participant_id" \notin DOMAIN it THEN Loop(i + 1, best)
                    ELSE IF at = {} THEN Loop(i + 1, Append(best, e))
                    ELSE LET j == CHOOSE x \in at : TRUE
                         IN IF Better(e.score, best[j].score)
                            THEN Loop(i + 1, [best EXCEPT ![j] = e])
                            ELSE Loop(i + 1, best)
    IN sorted_by_score(Loop(1, <<>>))

\* get_latest_submissions_by_participant: {pid: (ts, sid)} reduced to {pid: sid}
get_latest_submissions_by_participant(items) ==
    LET RECURSIVE Loop(_, _)
        Loop(i, ps) ==
            IF i > Len(items) THEN ps
            ELSE LET it == items[i]
                     pid == it.participant_id
                     ts == get_or(it, "timestep", 0)
                     sid == get_or(it, "original_submission_id", it.submission_id)
                 IN IF pid = "SYSTEM_CONFIG" THEN Loop(i + 1, ps)
                    ELSE IF pid \notin DOMAIN ps \/ ts > ps[pid][1]
                         THEN Loop(i + 1, [p \in DOMAIN ps \cup {pid} |->
                                              IF p = pid THEN <<ts, sid>> ELSE ps[p]])
                         ELSE Loop(i + 1, ps)
        participant_submissions == Loop(1, <<>>)
    IN [p \in DOMAIN participant_submissions |-> participant_submissions[p][2]]

Submissions == { <<"alice", "v1">>, <<"alice", "v2">>, <<"bob", "v1">> }
Scores == {1, 2}

ScoresInit ==
    /\ EngineIdle
    /\ EvalIdle
    /\ SubmitIdle
    /\ ExtIdle
    /\ table = <<>>
    /\ now = 1
    /\ submitted = <<>>
    /\ queue = {}
    /\ response = NoResponse
    /\ HandlerIdle
    /\ tradelog = <<>>

\* the item an evaluation of the submission ends with
Outcomes(s) ==
    {SuccessItem(s[1], s[2], score, now) : score \in Scores} \cup {ErrorItem(s[1], s[2], now)}

Returned(it) == [kind |-> "evaluator",
                 processed |-> IF it.score = -999 THEN 0 ELSE 1,
                 failed |-> IF it.score = -999 THEN 1 ELSE 0]

\* the evaluator handles the S3 event of a new submission
EvaluateNew(s, it) ==
    /\ now <= MaxClock
    /\ s \notin DOMAIN table
    /\ it \in Outcomes(s)
    /\ table' = put_item(table, it)
    /\ submitted' = [k \in DOMAIN submitted \cup {s} |-> IF k = s THEN now ELSE submitted[k]]
    /\ now' = now + 1
    /\ response' = Returned(it)
    /\ UNCHANGED <<enginevars, evalvars, extvars, submitvars, legacyvars, handlervars, queue>>

\* the evaluator handles a re-evaluation message of the queue
Reevaluate(s, it) ==
    /\ now <= MaxClock
    /\ [participant_id |-> s[1], submission_id |-> s[2]] \in queue
    /\ it \in Outcomes(s)
    /\ table' = put_item(table, it)
    /\ queue' = queue \ {[participant_id |-> s[1], submission_id |-> s[2]]}
    /\ now' = now + 1
    /\ response' = Returned(it)
    /\ UNCHANGED <<enginevars, evalvars, extvars, submitvars, legacyvars, handlervars, submitted>>

\* lambda_handler of the orchestrator for a new test file: the config item is
\* put, the table scanned and a message sent for each latest submission
Orchestrate(order) ==
    /\ now <= MaxClock
    /\ LET t == put_item(table, config_item(now))
           latest == get_latest_submissions_by_participant(scan(t, order))
       IN /\ order \in Orders(DOMAIN t)
          /\ table' = t
          /\ queue' = queue \cup {[participant_id |-> p, submission_id |-> latest[p]] :
                                     p \in DOMAIN latest}
          /\ response' = [kind |-> "orchestrator", latest |-> latest]
    /\ now' = now + 1
    /\ UNCHANGED <<enginevars, evalvars, extvars, submitvars, legacyvars, handlervars, submitted>>

\* handler of the API: the leaderboard of the scanned items
Leaderboard(order) ==
    /\ order \in Orders(DOMAIN table)
    /\ response' = [kind |-> "leaderboard", scanned |-> scan(table, order),
                    body |-> handler(scan(table, order))]
    /\ UNCHANGED <<enginevars, evalvars, extvars, submitvars, legacyvars, handlervars, table, now, submitted, queue>>

Keys == Submissions \cup {<<"SYSTEM_CONFIG", "ACTIVE_TEST_KEY">>}
ScanOrders == UNION {Orders(K) : K \in SUBSET Keys}
Items == UNION {{SuccessItem(s[1], s[2], score, t) : score \in Scores} \cup {ErrorItem(s[1], s[2], t)} :
                   s \in Submissions, t \in 1..(MaxClock + 1)}

ScoresNext ==
    \/ \E s \in Submissions, it \in Items : EvaluateNew(s, it)
    \/ \E s \in Submissions, it \in Items : Reevaluate(s, it)
    \/ \E order \in ScanOrders : Orchestrate(order)
    \/ \E order \in ScanOrders : Leaderboard(order)

ScoresSpec == ScoresInit /\ [][ScoresNext]_vars

----------------------------------------------------------------------------
(* The leaderboard and the latest submissions *)

IsLeaderboard == response.kind = "leaderboard"

\* the scanned items of a participant
RecordsOf(pid) ==
    {k \in 1..Len(response.scanned) : response.scanned[k].participant_id = pid}

ScoreOf(it) == IF "score" \in DOMAIN it THEN it.score ELSE 0

\* C26: the leaderboard has at most one entry per participant_id, the entry
\* carries the maximum score among the scanned records of the participant,
\* with the submission_id and metrics of a record of that score, and the
\* entries are in non-increasing order of score
C26_BestPerParticipant ==
    IsLeaderboard =>
        LET body == response.body
            scanned == response.scanned
        IN /\ \A i, j \in 1..Len(body) :
                  i # j => body[i].participant_id # body[j].participant_id
           /\ \A i \in 1..Len(body) :
                  /\ \A k \in RecordsOf(body[i].participant_id) :
                         ScoreOf(scanned[k]) <= body[i].score
                  /\ \E k \in RecordsOf(body[i].participant_id) :
                         /\ ScoreOf(scanned[k]) = body[i].score
                         /\ <<scanned[k].submission_id>> = body[i].submission_id
                         /\ body[i].metrics = <<>>
                         /\ "metrics" \notin DOMAIN scanned[k]
           /\ \A i \in 1..(Len(body) - 1) : body[i].score >= body[i + 1].score

\* a leaderboard of two participants, one of them with a better record
\* scanned before a worse one
C26_Witness ==
    /\ IsLeaderboard
    /\ Len(response.body) >= 2
    /\ \E k, l \in 1..Len(response.scanned) :
          /\ k < l
          /\ response.scanned[k].participant_id = response.scanned[l].participant_id
          /\ ScoreOf(response.scanned[k]) > ScoreOf(response.scanned[l])

\* the participants with a submission in the table
RealParticipants == {s[1] : s \in DOMAIN submitted}

\* the submission id the participant uploaded last
MostRecent(p) ==
    CHOOSE sid \in {s[2] : s \in DOMAIN submitted} :
        /\ <<p, sid>> \in DOMAIN submitted
        /\ \A s \in DOMAIN submitted : s[1] = p => submitted[s] <= submitted[<<p, sid>>]

\* C27: get_latest_submissions_by_participant returns, for every participant
\* with a record, the id of the submission submitted last, whether its record
\* is a success or an error record and however often it was re-evaluated, and
\* never returns SYSTEM_CONFIG
C27_LatestSubmission ==
    response.kind = "orchestrator" =>
        /\ "SYSTEM_CONFIG" \notin DOMAIN response.latest
        /\ \A p \in RealParticipants :
              /\ p \in DOMAIN response.latest
              /\ response.latest[p] = MostRecent(p)

\* C28: the SYSTEM_CONFIG / ACTIVE_TEST_KEY item is no entry of the leaderboard
C28_ConfigNotListed ==
    IsLeaderboard =>
        \A i \in 1..Len(response.body) : response.body[i].participant_id # "SYSTEM_CONFIG"

----------------------------------------------------------------------------
(* The enter/exit Portfolio of src/pricing/Portfolio.py, which the Engine of *)
(* src/Engine.py builds.  A tradelog entry is tagged with its Python type.   *)
(* The Position class is not among the files; a position is the record of    *)
(* its quantity and its average entry price.                                 *)

MaxCalls == 3

legacy_cash == 1000

\* self.tradelog[ric] = [] for ric in market.universe
EmptyLog == [kind |-> "list", records |-> <<>>]

\* Position.rebalance(price, quantity): quantity added, price averaged
rebalance(position, price, quantity) ==
    [quantity |-> position.quantity + quantity,
     price |-> (position.quantity * position.price + quantity * price)
                  \div (position.quantity + quantity)]

\* Position.mark_to_market(market): the quantity at the price of the market
mark_to_market(position, qs, id) == position.quantity * qs[id].price.v

\* product.present_value(market): the price of the quote of the product
present_value(qs, id) == qs[id].price.v

LegacyProducts == {"A", "B"}
LegacyQuantities == {1, 20}

LegacyMarkets ==
    {[p \in ids |-> local_quote(Quote(p, "1", Num(IF p = "A" THEN a ELSE 100)))] :
        ids \in {{"A"}, {"A", "B"}}, a \in {50, 100}}

LegacyInit ==
    /\ csv = BadCsv
    /\ builder = "ok"
    /\ pc = "legacy"
    /\ universe = <<"A", "B">>
    /\ data_batches = <<>>
    /\ quotes \in LegacyMarkets
    /\ cash = legacy_cash
    /\ positions = EmptyMap
    /\ nav_history = <<>>
    /\ bi = 0
    /\ qi = 0
    /\ last_call = NoCall
    /\ on_quote_calls = <<>>
    /\ last_update = EmptyMap
    /\ raised = {}
    /\ trades = 0
    /\ record = NoRecord
    /\ EvalIdle
    /\ SubmitIdle
    /\ ExtIdle
    /\ ScoresIdle
    /\ HandlerIdle
    /\ tradelog = [p \in LegacyProducts |-> EmptyLog]

LegacyCall(op, product, quantity, outcome) ==
    [op |-> op, product |-> product, quantity |-> quantity, outcome |-> outcome,
     result |-> FALSE]

\* portfolio.enter(Position(product, quantity))
Enter(product, quantity) ==
    /\ pc = "legacy"
    /\ trades < MaxCalls
    /\ trades' = trades + 1
    /\ IF product \notin DOMAIN quotes
       THEN /\ last_call' = LegacyCall("enter", product, quantity, "KeyError")
            /\ UNCHANGED <<cash, positions, tradelog>>
       ELSE LET price == present_value(quotes, product)
                new_position == [quantity |-> quantity, price |-> price]
            IN IF cash < price * quantity
               THEN /\ last_call' = LegacyCall("enter", product, quantity,
                                               "Insufficient funds")
                    /\ UNCHANGED <<cash, positions, tradelog>>
               ELSE /\ cash' = cash - price * quantity
                    /\ positions' =
                          [p \in DOMAIN positions \cup {product} |->
                              IF p # product THEN positions[p]
                              ELSE IF product \in DOMAIN positions
                                   THEN rebalance(positions[product], price, quantity)
                                   ELSE new_position]
                    /\ IF tradelog[product].kind = "list"
                       THEN /\ tradelog' =
                                  [tradelog EXCEPT ![product].records =
                                      Append(@, [timestamp |-> quotes[product].timestamp,
                                                 quantity |-> quantity, price |-> price])]
                            /\ last_call' = LegacyCall("enter", product, quantity,
                                                       "returned")
                       ELSE /\ UNCHANGED tradelog
                            /\ last_call' = LegacyCall("enter", product, quantity,
                                                       "AttributeError")
    /\ UNCHANGED <<toolvars_but_legacy, evalvars, csv, builder, pc, universe, data_batches,
                   quotes, nav_history, bi, qi, on_quote_calls, last_update, raised, record>>

\* portfolio.exit(id)
Exit(id) ==
    /\ pc = "legacy"
    /\ trades < MaxCalls
    /\ trades' = trades + 1
    /\ IF id \notin DOMAIN positions
       THEN /\ last_call' = LegacyCall("exit", id, 0, "Position not found")
            /\ UNCHANGED <<cash, positions, tradelog>>
       ELSE LET exit_position == positions[id]
            IN /\ cash' = cash + mark_to_market(exit_position, quotes, id)
               /\ tradelog' = [tradelog EXCEPT ![id] =
                                  [kind |-> "dict",
                                   record |-> [timestamp |-> quotes[id].timestamp,
                                               quantity |-> exit_position.quantity,
                                               price |-> exit_position.price]]]
               /\ positions' = [p \in DOMAIN positions \ {id} |-> positions[p]]
               /\ last_call' = LegacyCall("exit", id, exit_position.quantity, "returned")
    /\ UNCHANGED <<toolvars_but_legacy, evalvars, csv, builder, pc, universe, data_batches,
                   quotes, nav_history, bi, qi, on_quote_calls, last_update, raised, record>>

LegacyNext ==
    \/ \E product \in LegacyProducts, quantity \in LegacyQuantities : Enter(product, quantity)
    \/ \E id \in LegacyProducts : Exit(id)

LegacySpec == LegacyInit /\ [][LegacyNext]_vars

\* every tradelog entry is a list of fill records
C29_State ==
    \A p \in DOMAIN tradelog : tradelog[p].kind = "list"

\* a step that is a call of enter
EnterStep == pc = "legacy" /\ trades' = trades + 1 /\ last_call'.op = "enter"

\* the call raised before changing anything
RaisedUnchanged ==
    /\ last_call'.outcome # "returned"
    /\ UNCHANGED <<cash, positions, tradelog>>

\* the call deducted the cash, added or rebalanced the position and appended one record
Completed ==
    /\ last_call'.outcome = "returned"
    /\ cash' = cash - present_value(quotes, last_call'.product) * last_call'.quantity
    /\ last_call'.product \in DOMAIN positions'
    /\ tradelog'[last_call'.product].kind = "list"
    /\ tradelog[last_call'.product].kind = "list"
    /\ Len(tradelog'[last_call'.product].records)
          = Len(tradelog[last_call'.product].records) + 1

----------------------------------------------------------------------------
(* lambda_handler of the evaluator: the loop over submissions_to_process,    *)
(* with the deletion of the SQS message of a re-evaluation.  A message is    *)
(* the record of its body and of the receipt handle it was received with.    *)

MaxMessages == 3

sub_info(s, source, receipt_handle) ==
    [participant_id |-> s[1], submission_id |-> s[2], source |-> source,
     receipt_handle |-> receipt_handle]

\* the message a sub_info of source 'sqs' was built from
MessageOf(info) ==
    [participant_id |-> info.participant_id, submission_id |-> info.submission_id,
     receipt_handle |-> info.receipt_handle]

\* sub_info['source'] == 'sqs' and sub_info.get('receipt_handle')
Deletable(info) == info.source = "sqs" /\ info.receipt_handle # None

HandledSubmissions == { <<"alice", "v1">>, <<"bob", "v1">> }
ReceiptHandles == {"r1", "r2", "r3", None}

\* the events: one S3 record, or up to MaxMessages SQS records, each received
\* with its own receipt handle
Events ==
    {<<sub_info(s, "s3", None)>> : s \in HandledSubmissions}
    \cup {e \in SeqsUpTo({sub_info(s, "sqs", h) : s \in HandledSubmissions,
                                                  h \in ReceiptHandles}, MaxMessages) :
            /\ e # <<>>
            /\ \A i, j \in 1..Len(e) :
                  (i # j /\ e[i].receipt_handle # None)
                     => e[i].receipt_handle # e[j].receipt_handle}

HandlerInit ==
    /\ EngineIdle
    /\ EvalIdle
    /\ SubmitIdle
    /\ ExtIdle
    /\ tradelog = <<>>
    /\ table = <<>>
    /\ now = 1
    /\ submitted = <<>>
    /\ response = NoResponse
    /\ submissions_to_process \in Events
    /\ queue = {MessageOf(submissions_to_process[i]) :
                   i \in {j \in 1..Len(submissions_to_process) :
                             Deletable(submissions_to_process[j])}}
    /\ sub_i = 1
    /\ hpc = "process"
    /\ results = <<>>
    /\ sqs_eval_queue_url \in BOOLEAN
    /\ local_files = {}

Current == submissions_to_process[sub_i]

\* f"/tmp/{participant_id}_{submission_id}_submission.py"
local_path(info) == <<info.participant_id, info.submission_id>>

\* the finally block removes the local file, and the loop goes to the next sub_info
NextSubmission ==
    /\ local_files' = local_files \ {local_path(Current)}
    /\ sub_i' = sub_i + 1
    /\ hpc' = "process"

\* s3.download_file writes the submission to local_path
Download ==
    /\ hpc = "process"
    /\ sub_i <= Len(submissions_to_process)
    /\ local_files' = local_files \cup {local_path(Current)}
    /\ hpc' = "evaluate"
    /\ UNCHANGED <<enginevars, evalvars, extvars, submitvars, legacyvars, scorevars,
                   submissions_to_process, sub_i, results, sqs_eval_queue_url>>

\* evaluate_submission returns: the item is in the table, success_count is
\* incremented
HandlerEvaluates(score) ==
    /\ hpc = "evaluate"
    /\ table' = put_item(table, SuccessItem(Current.participant_id,
                                            Current.submission_id, score, now))
    /\ now' = now + 1
    /\ results' = Append(results, "success")
    /\ IF Deletable(Current)
       THEN hpc' = "delete" /\ sub_i' = sub_i /\ local_files' = local_files
       ELSE NextSubmission
    /\ UNCHANGED <<enginevars, evalvars, extvars, submitvars, legacyvars, submitted, queue, response,
                   submissions_to_process, sqs_eval_queue_url>>

\* variant: the exception of an evaluation is raised again after the error
\* record, and ends the loop
HandlerEvaluationFails_reraises(written) ==
    /\ hpc \in {"process", "evaluate"}
    /\ sub_i <= Len(submissions_to_process)
    /\ table' = IF written
                THEN put_item(table, ErrorItem(Current.participant_id,
                                               Current.submission_id, now))
                ELSE table
    /\ now' = now + 1
    /\ results' = Append(results, "failed")
    /\ local_files' = local_files \ {local_path(Current)}
    /\ sub_i' = Len(submissions_to_process) + 1
    /\ hpc' = "process"
    /\ UNCHANGED <<enginevars, evalvars, extvars, submitvars, legacyvars, submitted, queue, response,
                   submissions_to_process, sqs_eval_queue_url>>

\* download_file or evaluate_submission raises: failure_count is incremented
\* and the error record is put, unless that put raises too
HandlerEvaluationFails(written) ==
    /\ hpc \in {"process", "evaluate"}
    /\ sub_i <= Len(submissions_to_process)
    /\ table' = IF written
                THEN put_item(table, ErrorItem(Current.participant_id,
                                               Current.submission_id, now))
                ELSE table
    /\ now' = now + 1
    /\ results' = Append(results, "failed")
    /\ NextSubmission
    /\ UNCHANGED <<enginevars, evalvars, extvars, submitvars, legacyvars, submitted, queue, response,
                   submissions_to_process, sqs_eval_queue_url>>

\* the message is deleted when the queue URL is configured; a warning otherwise
DeleteMessage ==
    /\ hpc = "delete"
    /\ queue' = IF sqs_eval_queue_url THEN queue \ {MessageOf(Current)} ELSE queue
    /\ NextSubmission
    /\ UNCHANGED <<enginevars, evalvars, extvars, submitvars, legacyvars, table, now, submitted,
                   response, submissions_to_process, results, sqs_eval_queue_url>>

\* variant: no try/except around the deletion; the exception reaches the
\* except branch of the evaluation, which counts a failure and puts the error record
DeleteFails_propagates ==
    /\ hpc = "delete"
    /\ table' = put_item(table, ErrorItem(Current.participant_id,
                                          Current.submission_id, now))
    /\ now' = now + 1
    /\ results' = Append(results, "failed")
    /\ NextSubmission
    /\ UNCHANGED <<enginevars, evalvars, extvars, submitvars, legacyvars, submitted, queue, response,
                   submissions_to_process, sqs_eval_queue_url>>

\* boto3.client('sqs') or delete_message raises: the error is printed
DeleteFails ==
    /\ hpc = "delete"
    /\ NextSubmission
    /\ UNCHANGED <<enginevars, evalvars, extvars, submitvars, legacyvars, table, now, submitted,
                   queue, response, submissions_to_process, results, sqs_eval_queue_url>>

CountOf(outcome) == Cardinality({j \in 1..Len(results) : results[j] = outcome})

\* the loop is over: {'ok': True, 'processed': success_count, 'failed': failure_count}
HandlerReturns ==
    /\ hpc = "process"
    /\ sub_i > Len(submissions_to_process)
    /\ response' = [kind |-> "evaluator", processed |-> CountOf("success"),
                    failed |-> CountOf("failed")]
    /\ hpc' = "done"
    /\ UNCHANGED <<enginevars, evalvars, extvars, submitvars, legacyvars, table, now, submitted,
                   queue, submissions_to_process, sub_i, results, sqs_eval_queue_url,
                   local_files>>

HandlerNext ==
    \/ Download
    \/ \E score \in Scores : HandlerEvaluates(score)
    \/ \E written \in BOOLEAN : HandlerEvaluationFails(written)
    \/ DeleteMessage
    \/ DeleteFails
    \/ HandlerReturns

HandlerSpec == HandlerInit /\ [][HandlerNext]_vars

\* the indices of the sub_infos whose message can be deleted
DeletableAt == {j \in 1..Len(submissions_to_process) : Deletable(submissions_to_process[j])}

IsDeleted(j) == MessageOf(submissions_to_process[j]) \notin queue

\* a deleted message is one whose evaluation succeeded; the message of a failed
\* evaluation is in the queue; the handler returns the counts of the evaluations
C30_State ==
    /\ \A j \in DeletableAt :
          /\ IsDeleted(j) => (j <= Len(results) /\ results[j] = "success")
          /\ (j <= Len(results) /\ results[j] = "failed") => ~IsDeleted(j)
    /\ hpc = "done" => /\ Len(results) = Len(submissions_to_process)
                       /\ response.processed = CountOf("success")
                       /\ response.failed = CountOf("failed")

\* the message is deleted after the evaluation returned and its item is in the
\* table; the deletion, done or failed, changes neither the counts nor the table
C30_Step ==
    /\ queue' # queue =>
          /\ hpc = "delete"
          /\ queue' = queue \ {MessageOf(Current)}
          /\ results[sub_i] = "success"
          /\ <<Current.participant_id, Current.submission_id>> \in DOMAIN table
          /\ "original_submission_id" \in
                DOMAIN table[<<Current.participant_id, Current.submission_id>>]
    /\ hpc = "delete" => results' = results /\ table' = table

\* C30: the SQS message of a submission is deleted only after its evaluation
\* returned successfully and its record was written; the message of a failed
\* evaluation is never deleted; a failed deletion does not turn a successful
\* evaluation into a failed one
C30_DeleteAfterSuccess == []C30_State /\ [][C30_Step]_vars

\* the handler returned; one message was deleted, the message of a failed
\* evaluation is in the queue, and so is the message of a successful
\* evaluation whose deletion failed, which is counted as processed
C30_Witness ==
    /\ hpc = "done"
    /\ sqs_eval_queue_url
    /\ response.processed = 2
    /\ \E j, k, l \in DeletableAt :
          /\ IsDeleted(j)
          /\ results[k] = "failed" /\ ~IsDeleted(k)
          /\ results[l] = "success" /\ ~IsDeleted(l)
----------------------------------------------------------------------------
(* Isolation of the submissions of one event.                                *)

\* between two submissions every earlier one has its outcome and its local
\* file is gone; the handler returns when every submission has one outcome
C31_State ==
    /\ hpc = "process" => Len(results) = sub_i - 1 /\ local_files = {}
    /\ hpc = "done" =>
          /\ Len(results) = Len(submissions_to_process)
          /\ response.processed = CountOf("success")
          /\ response.failed = CountOf("failed")
          /\ response.processed + response.failed = Len(submissions_to_process)
          /\ local_files = {}

\* the loop never leaves a submission out: the index moves by one at most, and
\* an outcome is recorded for the current submission only
C31_Step ==
    /\ sub_i' \in {sub_i, sub_i + 1}
    /\ results' # results =>
          /\ Len(results') = sub_i
          /\ \A j \in 1..Len(results) : results'[j] = results[j]

\* C31: a failed evaluation does not keep the remaining submissions of the
\* event from being evaluated; on return processed + failed is the number of
\* submissions of the event, each counted once, and no local copy is left
C31_FailureIsolated == []C31_State /\ [][C31_Step]_vars

\* the handler returned after a failed evaluation was followed by a successful
\* one and by another failure
C31_Witness ==
    /\ hpc = "done"
    /\ Len(submissions_to_process) = 3
    /\ results = <<"failed", "success", "failed">>
    /\ response.processed = 1
    /\ response.failed = 2

----------------------------------------------------------------------------
(* submissions/submission_handler.py: the submission API handler.  It is     *)
(* invoked once per request; a request is validated, put in S3, announced    *)
(* on SQS.                                                                    *)

MaxRequests == 2

\* base64.b64decode(body).decode('utf-8'): <<text>>, or <<>> when b64decode
\* raises binascii.Error (wrong padding) or the bytes are not UTF-8; characters
\* outside the alphabet are discarded
b64decode_utf8(body) ==
    CASE body = "Y29kZQ==" -> <<"code">>
      [] body = ""         -> <<"">>
      [] body = "!!"       -> <<"">>
      [] body = "Y29kZQ"   -> <<>>
      [] body = "/w=="     -> <<>>
      [] OTHER             -> <<>>

\* the requests: requestContext.authorizer.principalId present or not, the
\* body present or not (None, no key: both fail the validation), encoded or not
ApiBodies == {None, "", "code", "Y29kZQ==", "!!", "Y29kZQ", "/w=="}

ApiEvents ==
    [kind : {"request"}, principalId : {<<>>, <<"alice">>, <<"bob">>},
     isBase64Encoded : BOOLEAN, body : ApiBodies]

\* the try block of step 1: <<participant_id, submission_body>>, or <<>> when
\* KeyError, TypeError or ValueError is raised
validate(event) ==
    IF event.principalId = <<>> THEN <<>>
    ELSE IF event.isBase64Encoded
         THEN IF event.body = None THEN <<>>
              ELSE LET decoded == b64decode_utf8(event.body)
                   IN IF decoded = <<>> \/ decoded = <<"">> THEN <<>>
                      ELSE <<event.principalId[1], decoded[1]>>
         ELSE IF event.body = None \/ event.body = "" THEN <<>>
              ELSE <<event.principalId[1], event.body>>

\* f"{participant_id}/{submission_id}.csv", submission_id the uuid4 of the request
s3_key == <<validate(api_event)[1], requests>>

message_body == [participantId |-> validate(api_event)[1], s3Key |-> s3_key]

ApiInit ==
    /\ EngineIdle
    /\ EvalIdle
    /\ SubmitIdle
    /\ ScoresIdle
    /\ HandlerIdle
    /\ tradelog = <<>>
    /\ ApiIdle
    /\ OrchIdle
    /\ StrategyIdle

\* API Gateway invokes the handler with a request
ApiInvoke(event) ==
    /\ apipc \in {"idle", "done"}
    /\ requests < MaxRequests
    /\ api_event' = event
    /\ requests' = requests + 1
    /\ api_response' = <<>>
    /\ apipc' = "validate"
    /\ UNCHANGED <<enginevars, evalvars, submitvars, scorevars, legacyvars, handlervars,
                   orchvars, stratvars,
                   objects, messages>>

\* step 1: an invalid request is answered with 400
Validate ==
    /\ apipc = "validate"
    /\ IF validate(api_event) = <<>>
       THEN api_response' = <<400>> /\ apipc' = "done"
       ELSE api_response' = api_response /\ apipc' = "upload"
    /\ UNCHANGED <<enginevars, evalvars, submitvars, scorevars, legacyvars, handlervars,
                   orchvars, stratvars,
                   api_event, requests, objects, messages>>

\* step 2: put_object returns
PutObject ==
    /\ apipc = "upload"
    /\ objects' = objects \cup {s3_key}
    /\ apipc' = "enqueue"
    /\ UNCHANGED <<enginevars, evalvars, submitvars, scorevars, legacyvars, handlervars,
                   orchvars, stratvars,
                   api_event, requests, messages, api_response>>

\* variant: the exception of put_object is printed and the handler goes on
PutObjectFails_continues ==
    /\ apipc = "upload"
    /\ apipc' = "enqueue"
    /\ UNCHANGED <<enginevars, evalvars, submitvars, scorevars, legacyvars, handlervars,
                   orchvars, stratvars,
                   api_event, requests, objects, messages, api_response>>

\* step 2: put_object raises, the handler returns 500
PutObjectFails ==
    /\ apipc = "upload"
    /\ api_response' = <<500>>
    /\ apipc' = "done"
    /\ UNCHANGED <<enginevars, evalvars, submitvars, scorevars, legacyvars, handlervars,
                   orchvars, stratvars,
                   api_event, requests, objects, messages>>

\* steps 3 and 4: send_message returns, the handler returns 200
SendMessage ==
    /\ apipc = "enqueue"
    /\ messages' = messages \cup {message_body}
    /\ api_response' = <<200>>
    /\ apipc' = "done"
    /\ UNCHANGED <<enginevars, evalvars, submitvars, scorevars, legacyvars, handlervars,
                   orchvars, stratvars,
                   api_event, requests, objects>>

\* step 3: send_message raises, the handler returns 500; the object stays
SendMessageFails ==
    /\ apipc = "enqueue"
    /\ api_response' = <<500>>
    /\ apipc' = "done"
    /\ UNCHANGED <<enginevars, evalvars, submitvars, scorevars, legacyvars, handlervars,
                   orchvars, stratvars,
                   api_event, requests, objects, messages>>

ApiNext ==
    \/ \E event \in ApiEvents : ApiInvoke(event)
    \/ Validate
    \/ PutObject
    \/ PutObjectFails
    \/ SendMessage
    \/ SendMessageFails

ApiSpec == ApiInit /\ [][ApiNext]_vars

\* the objects and the messages of the request being handled
ObjectsOfRequest == {k \in objects : k[2] = requests}

MessagesOfRequest == {m \in messages : m.s3Key[2] = requests}

\* a request is empty when it has no body or its body, decoded, is ''
EmptyBody ==
    \/ api_event.body = None
    \/ api_event.body = ""
    \/ api_event.isBase64Encoded /\ b64decode_utf8(api_event.body) \in {<<>>, <<"">>}

\* every message announces an object that was put; the answer is 200 exactly
\* when the request has its object and its message, and 400 exactly when the
\* request is invalid or empty, with neither an object nor a message
C32_State ==
    /\ \A m \in messages : m.s3Key \in objects
    /\ apipc = "done" =>
          /\ api_response = <<200>> <=>
                (ObjectsOfRequest # {} /\ MessagesOfRequest # {})
          /\ api_response = <<400>> <=> (api_event.principalId = <<>> \/ EmptyBody)
          /\ api_response = <<400>> =>
                (ObjectsOfRequest = {} /\ MessagesOfRequest = {})
          /\ ObjectsOfRequest = {} => MessagesOfRequest = {}

\* a message is sent for the object of the request only, and after it was put
C32_Step ==
    messages' # messages =>
       /\ messages' = messages \cup {[participantId |-> api_event.principalId[1],
                                      s3Key |-> <<api_event.principalId[1], requests>>]}
       /\ <<api_event.principalId[1], requests>> \in objects

\* C32: the SQS message of a submission is sent only after its upload
\* succeeded; a failed upload sends no message; 200 is returned only when both
\* succeeded; an invalid or empty request is answered with 400 and neither an
\* upload nor a message
C32_EnqueueAfterUpload == []C32_State /\ [][C32_Step]_vars

\* after an accepted request, a second request was refused with 400 and left
\* nothing behind
C32_Witness ==
    /\ apipc = "done"
    /\ requests = 2
    /\ api_response = <<400>>
    /\ Cardinality(objects) = 1
    /\ Cardinality(messages) = 1

----------------------------------------------------------------------------
(* lambda_handler of the re-evaluation orchestrator, call by call.  An S3    *)
(* key is the pair of its stem and its extension.                            *)

\* new_test_data_key.endswith('.csv')
endswith_csv(key) == key[2] = ".csv"

\* the first record of the event: its key (<<>> when the record has none, a
\* KeyError) and its bucket
OrchEvents ==
    [kind : {"s3"}, key : {<<>>, <<<<"new", ".csv">>>>, <<<<"notes", ".txt">>>>},
     bucket : {"tests-v2"}]

\* config_item of the orchestrator for a test file
active_test_key_item(key, test_bucket, t) ==
    [participant_id |-> "SYSTEM_CONFIG",
     submission_id |-> "ACTIVE_TEST_KEY",
     active_test_key |-> key,
     active_test_bucket |-> test_bucket,
     timestamp |-> t]

\* the tables the orchestrator can find: for some submissions the item of a
\* successful or of a failed evaluation, with or without the item of an
\* earlier test file
StoredItems(s) ==
    {SuccessItem(s[1], s[2], 1, IF s[2] = "v2" THEN 2 ELSE 1), ErrorItem(s[1], s[2], 1)}

OrchTables ==
    LET evaluated == UNION {{t \in [K -> UNION {StoredItems(s) : s \in Submissions}] :
                               \A s \in K : t[s] \in StoredItems(s)} :
                            K \in SUBSET Submissions}
    IN evaluated
       \cup {put_item(t, active_test_key_item(<<"old", ".csv">>, "tests", 0)) : t \in evaluated}

OrchInit ==
    /\ EngineIdle
    /\ EvalIdle
    /\ SubmitIdle
    /\ HandlerIdle
    /\ ApiIdle
    /\ StrategyIdle
    /\ tradelog = <<>>
    /\ table \in OrchTables
    /\ now = 3
    /\ submitted = <<>>
    /\ queue = {}
    /\ response = NoResponse
    /\ orch_event \in OrchEvents
    /\ opc = "parse"
    /\ submissions_to_reevaluate = <<>>
    /\ orch_i = 0
    /\ attempted = <<>>
    /\ message_count = 0
    /\ orch_response = <<>>

new_test_data_key == orch_event.key[1]

new_test_data_bucket == orch_event.bucket

\* the event is parsed: 400 without a key, 200 'Skipped' for a key that is not
\* a .csv
ParseEvent ==
    /\ opc = "parse"
    /\ IF orch_event.key = <<>>
       THEN orch_response' = <<400>> /\ opc' = "done"
       ELSE IF ~endswith_csv(new_test_data_key)
            THEN orch_response' = <<200>> /\ opc' = "done"
            ELSE orch_response' = orch_response /\ opc' = "update"
    /\ UNCHANGED <<enginevars, evalvars, toolvars_but_orch, orch_event,
                   submissions_to_reevaluate, orch_i, attempted, message_count>>

\* table.put_item(Item=config_item) returns
UpdateActiveKey ==
    /\ opc = "update"
    /\ table' = put_item(table, active_test_key_item(new_test_data_key,
                                                     new_test_data_bucket, now))
    /\ now' = now + 1
    /\ opc' = "scan"
    /\ UNCHANGED <<enginevars, evalvars, submitvars, legacyvars, handlervars, apivars,
                   stratvars, submitted, queue, response, orch_event,
                   submissions_to_reevaluate, orch_i, attempted, message_count,
                   orch_response>>

\* variant: the failed update is printed and the handler goes on
UpdateActiveKeyFails_continues ==
    /\ opc = "update"
    /\ opc' = "scan"
    /\ UNCHANGED <<enginevars, evalvars, toolvars_but_orch, orch_event,
                   submissions_to_reevaluate, orch_i, attempted, message_count,
                   orch_response>>

\* table.put_item raises: the handler returns 500
UpdateActiveKeyFails ==
    /\ opc = "update"
    /\ orch_response' = <<500>>
    /\ opc' = "done"
    /\ UNCHANGED <<enginevars, evalvars, toolvars_but_orch, orch_event,
                   submissions_to_reevaluate, orch_i, attempted, message_count>>

\* the keys of a dict filled from the scanned items, in insertion order
InsertionOrder(items) ==
    LET RECURSIVE Loop(_, _)
        Loop(i, pids) ==
            IF i > Len(items) THEN pids
            ELSE LET pid == items[i].participant_id
                 IN IF pid = "SYSTEM_CONFIG" \/ \E j \in 1..Len(pids) : pids[j] = pid
                    THEN Loop(i + 1, pids)
                    ELSE Loop(i + 1, Append(pids, pid))
    IN Loop(1, <<>>)

\* the table is scanned and submissions_to_reevaluate is filled
CollectLatest(order) ==
    /\ opc = "scan"
    /\ order \in Orders(DOMAIN table)
    /\ LET items == scan(table, order)
           all_latest_submissions == get_latest_submissions_by_participant(items)
           pids == InsertionOrder(items)
       IN submissions_to_reevaluate' =
             [i \in 1..Len(pids) |->
                 [participant_id |-> pids[i],
                  submission_id |-> all_latest_submissions[pids[i]]]]
    /\ orch_i' = 1
    /\ opc' = "send"
    /\ UNCHANGED <<enginevars, evalvars, toolvars_but_orch, orch_event, attempted,
                   message_count, orch_response>>

reevaluation_message ==
    [participant_id |-> submissions_to_reevaluate[orch_i].participant_id,
     submission_id |-> submissions_to_reevaluate[orch_i].submission_id,
     test_data_key |-> new_test_data_key,
     test_data_bucket |-> new_test_data_bucket]

\* sqs.send_message returns
SendReevaluation ==
    /\ opc = "send"
    /\ orch_i <= Len(submissions_to_reevaluate)
    /\ queue' = queue \cup {reevaluation_message}
    /\ attempted' = Append(attempted, reevaluation_message)
    /\ message_count' = message_count + 1
    /\ orch_i' = orch_i + 1
    /\ UNCHANGED <<enginevars, evalvars, submitvars, legacyvars, handlervars, apivars,
                   stratvars, table, now, submitted, response, orch_event, opc,
                   submissions_to_reevaluate, orch_response>>

\* sqs.send_message raises: the error is printed, the loop goes on
SendReevaluationFails ==
    /\ opc = "send"
    /\ orch_i <= Len(submissions_to_reevaluate)
    /\ attempted' = Append(attempted, reevaluation_message)
    /\ orch_i' = orch_i + 1
    /\ UNCHANGED <<enginevars, evalvars, toolvars_but_orch, orch_event, opc,
                   submissions_to_reevaluate, message_count, orch_response>>

\* the loop is over: 200 'Queued n submissions.'
OrchReturns ==
    /\ opc = "send"
    /\ orch_i > Len(submissions_to_reevaluate)
    /\ orch_response' = <<200>>
    /\ opc' = "done"
    /\ UNCHANGED <<enginevars, evalvars, toolvars_but_orch, orch_event,
                   submissions_to_reevaluate, orch_i, attempted, message_count>>

OrchNext ==
    \/ ParseEvent
    \/ UpdateActiveKey
    \/ UpdateActiveKeyFails
    \/ \E order \in ScanOrders : CollectLatest(order)
    \/ SendReevaluation
    \/ SendReevaluationFails
    \/ OrchReturns

OrchSpec == OrchInit /\ [][OrchNext]_vars

\* the item of the active test key, when the table has one
ActiveKeyItem == get(table, <<"SYSTEM_CONFIG", "ACTIVE_TEST_KEY">>)

ActiveKeyUpdated ==
    /\ orch_event.key # <<>>
    /\ ActiveKeyItem # <<>>
    /\ ActiveKeyItem[1].active_test_key = new_test_data_key
    /\ ActiveKeyItem[1].active_test_bucket = new_test_data_bucket

\* the participants that have an item in the table
ParticipantsOfTable == {k[1] : k \in DOMAIN table} \ {"SYSTEM_CONFIG"}

\* a message is attempted only with the table updated; no message without a
\* .csv key or after a failed update; after the loop each participant of the
\* table has had one attempt, for one of its submissions, with the new key and
\* bucket, whatever the sends did
C33_State ==
    /\ attempted # <<>> => ActiveKeyUpdated
    /\ \A m \in queue : \E i \in 1..Len(attempted) : attempted[i] = m
    /\ (orch_event.key = <<>> \/ ~endswith_csv(new_test_data_key)) =>
          attempted = <<>> /\ table \in OrchTables
    /\ orch_response = <<500>> => attempted = <<>> /\ queue = {}
    /\ (opc = "done" /\ orch_response = <<200>> /\ attempted # <<>>) =>
          ParticipantsOfTable # {}
    /\ (opc = "done" /\ orch_response = <<200>> /\ ActiveKeyUpdated) =>
          /\ Len(attempted) = Cardinality(ParticipantsOfTable)
          /\ \A p \in ParticipantsOfTable :
                \E i \in 1..Len(attempted) : attempted[i].participant_id = p
          /\ \A i \in 1..Len(attempted) :
                /\ <<attempted[i].participant_id, attempted[i].submission_id>>
                      \in DOMAIN table
                /\ attempted[i].test_data_key = new_test_data_key
                /\ attempted[i].test_data_bucket = new_test_data_bucket
          /\ Cardinality(queue) = message_count

\* C33: the active test key is updated before any re-evaluation message is
\* queued; after a failed update or for an object that is not a .csv no
\* message is queued; otherwise one message per participant with a latest
\* submission is attempted, with the new key and bucket, and a failed send
\* does not stop the others
C33_UpdateBeforeQueue == C33_State

\* the handler returned 200 over a table that had the key of an earlier test
\* file: the first of two sends failed, the second message is in the queue
C33_Witness ==
    /\ opc = "done"
    /\ orch_response = <<200>>
    /\ Len(attempted) = 2
    /\ queue = {attempted[2]}
    /\ message_count = 1
    /\ ActiveKeyUpdated

----------------------------------------------------------------------------
(* ExampleStrategy replayed by the Engine of src/Engine.py over the Market   *)
(* of src/pricing/Market.py and the enter/exit Portfolio.  The batches are   *)
(* those of the local reader: a product quote and the Clock quote of its     *)
(* time.  The loop of Engine.run is not among the files beyond its header;   *)
(* it is the loop of section 4.4: the quotes of a batch update the Market,   *)
(* then on_quote is called once, and an exception of on_quote is swallowed.  *)

MaxDays == 3

Days == 1..MaxDays

\* Market.update of pricing/Market.py, on the quotes map
market_update(qs, quote) ==
    IF quote.id # "Clock"
    THEN [p \in DOMAIN qs \cup {quote.id} |-> IF p = quote.id THEN quote ELSE qs[p]]
    ELSE qs

\* the quotes of a batch applied in order
market_update_batch(qs, batch) ==
    LET RECURSIVE Loop(_, _)
        Loop(i, m) == IF i > Len(batch) THEN m ELSE Loop(i + 1, market_update(m, batch[i]))
    IN Loop(1, qs)

\* the batch of a day: the quote of the product and the Clock quote
DayBatch(ric, day, price) ==
    <<local_quote(Quote(ric, day, Num(price))), local_quote(ClockQuote(day))>>

ExampleBatches(ric) ==
    {[d \in 1..n |-> DayBatch(ric, d, prices[d])] :
        n \in Days, prices \in [Days -> {100, 110}]}

ExampleHyperparams ==
    [ric : {"JPM.N", "A"}, buy_date : Days, sell_date : Days]

StrategyInit ==
    /\ csv = BadCsv
    /\ builder = "ok"
    /\ pc = "replay"
    /\ hyperparams \in ExampleHyperparams
    /\ universe = <<hyperparams.ric>>
    /\ data_batches \in ExampleBatches(hyperparams.ric)
    /\ quotes = EmptyMap
    /\ cash = initial_cash
    /\ positions = EmptyMap
    /\ nav_history = <<>>
    /\ bi = 1
    /\ qi = 0
    /\ last_call = NoCall
    /\ on_quote_calls = <<>>
    /\ last_update = EmptyMap
    /\ raised = {}
    /\ trades = 0
    /\ record = NoRecord
    /\ EvalIdle
    /\ SubmitIdle
    /\ ScoresIdle
    /\ HandlerIdle
    /\ ApiIdle
    /\ OrchIdle
    /\ tradelog = [p \in {hyperparams.ric} |-> EmptyLog]

\* the portfolio, as the record of its attributes
ThePortfolio == [cash |-> cash, positions |-> positions, tradelog |-> tradelog]

\* portfolio.enter(Position(Stock(product), quantity)), on the record: the
\* attributes as the call leaves them, whether it returns or raises
enter(pf, qs, product, quantity) ==
    IF product \notin DOMAIN qs THEN pf
    ELSE LET price == present_value(qs, product)
         IN IF pf.cash < price * quantity THEN pf
            ELSE [cash |-> pf.cash - price * quantity,
                  positions |->
                     [p \in DOMAIN pf.positions \cup {product} |->
                         IF p # product THEN pf.positions[p]
                         ELSE IF product \in DOMAIN pf.positions
                              THEN rebalance(pf.positions[product], price, quantity)
                              ELSE [quantity |-> quantity, price |-> price]],
                  tradelog |->
                     IF product \in DOMAIN pf.tradelog /\ pf.tradelog[product].kind = "list"
                     THEN [pf.tradelog EXCEPT ![product].records =
                              Append(@, [timestamp |-> qs[product].timestamp,
                                         quantity |-> quantity, price |-> price])]
                     ELSE pf.tradelog]

\* portfolio.exit(id), on the record
exit(pf, qs, id) ==
    IF id \notin DOMAIN pf.positions THEN pf
    ELSE [cash |-> pf.cash + mark_to_market(pf.positions[id], qs, id),
          positions |-> [p \in DOMAIN pf.positions \ {id} |-> pf.positions[p]],
          tradelog |->
             [p \in DOMAIN pf.tradelog \cup {id} |->
                 IF p # id THEN pf.tradelog[p]
                 ELSE [kind |-> "dict",
                       record |-> [timestamp |-> qs[id].timestamp,
                                   quantity |-> pf.positions[id].quantity,
                                   price |-> pf.positions[id].price]]]]

\* ExampleStrategy.on_quote(market, portfolio)
on_quote(pf, qs, hp) ==
    IF "Clock" \notin DOMAIN qs THEN pf
    ELSE IF "timestep" \notin DOMAIN qs["Clock"] THEN pf
         ELSE LET timestep == qs["Clock"].timestep
                  bought == IF timestep = hp.buy_date
                            THEN enter(pf, qs, hp.ric, 100) ELSE pf
              IN IF timestep = hp.sell_date THEN exit(bought, qs, "JPM.N") ELSE bought

\* one turn of the loop of Engine.run: the quotes of the batch update the
\* Market, then the strategy is called
ReplayBatch ==
    /\ pc = "replay"
    /\ bi <= Len(data_batches)
    /\ LET qs == market_update_batch(quotes, data_batches[bi])
           pf == on_quote(ThePortfolio, qs, hyperparams)
       IN /\ quotes' = qs
          /\ cash' = pf.cash
          /\ positions' = pf.positions
          /\ tradelog' = pf.tradelog
    /\ on_quote_calls' = Append(on_quote_calls, bi)
    /\ bi' = bi + 1
    /\ UNCHANGED <<toolvars_but_legacy, evalvars, csv, builder, pc, universe, data_batches,
                   nav_history, qi, last_call, last_update, raised, trades, record>>

\* the loop is over
ReplayEnds ==
    /\ pc = "replay"
    /\ bi > Len(data_batches)
    /\ pc' = "done"
    /\ UNCHANGED <<toolvars, evalvars, csv, builder, universe, data_batches, quotes, cash,
                   positions, nav_history, bi, qi, last_call, on_quote_calls, last_update,
                   raised, trades, record>>

StrategyNext ==
    \/ ReplayBatch
    \/ ReplayEnds

StrategySpec == StrategyInit /\ [][StrategyNext]_vars

\* the time the Clock quote of the batch being replayed carries
ClockTime == data_batches[bi][Len(data_batches[bi])].timestamp

Replayed == pc = "replay" /\ bi' = bi + 1

\* C34: in the batch whose Clock quote carries buy_date ExampleStrategy enters
\* a position of 100 units of the configured product, and in the batch whose
\* Clock quote carries sell_date it exits the position
C34_ActsOnClock ==
    [][/\ (Replayed /\ ClockTime = hyperparams.buy_date /\ ClockTime # hyperparams.sell_date)
          => /\ hyperparams.ric \in DOMAIN positions'
             /\ positions'[hyperparams.ric].quantity >= 100
       /\ (Replayed /\ ClockTime = hyperparams.sell_date)
          => hyperparams.ric \notin DOMAIN positions']_vars

----------------------------------------------------------------------------
(* Portfolio_local over its Market_local, apart from the engine: any         *)
(* sequence of market updates and of buy and sell calls.  The record of a    *)
(* call keeps the cash, the positions and the quotes the call found.         *)

MaxLedgerCalls == 3

\* the prices the market moves between: A halves or loses its price, B loses
\* nine percent
LedgerPrices(p) == IF p = "A" THEN {Num(100), Num(50), NaN} ELSE {Num(100), Num(91)}

LedgerQuotes ==
    {Quote("A", "1", price) : price \in LedgerPrices("A")}
    \cup {Quote("B", "1", price) : price \in LedgerPrices("B")}
    \cup {ClockQuote("1")}

LedgerInit ==
    /\ csv = BadCsv
    /\ builder = "ok"
    /\ pc = "ledger"
    /\ universe = <<"A", "B">>
    /\ data_batches = <<>>
    /\ quotes = EmptyMap
    /\ cash = initial_cash
    /\ positions = EmptyMap
    /\ nav_history = <<Num(initial_cash)>>
    /\ bi = 0
    /\ qi = 0
    /\ last_call = NoCall
    /\ on_quote_calls = <<>>
    /\ last_update = EmptyMap
    /\ raised = {}
    /\ trades = 0
    /\ record = NoRecord
    /\ EvalIdle
    /\ ToolsIdle

LedgerCall(op, product, quantity, outcome, result) ==
    [op |-> op, product |-> product, quantity |-> quantity, outcome |-> outcome,
     result |-> result, cash_before |-> cash, positions_before |-> positions,
     quotes_before |-> quotes]

\* self.market.update(quote)
LedgerUpdate(quote) ==
    /\ pc = "ledger"
    /\ quotes' = update(quotes, quote)
    /\ UNCHANGED <<toolvars, evalvars, csv, builder, pc, universe, data_batches, cash,
                   positions, nav_history, bi, qi, last_call, on_quote_calls, last_update,
                   raised, trades, record>>

\* portfolio.buy(product, quantity): ValueError without a quote of the product
LedgerBuy(product, quantity) ==
    /\ pc = "ledger"
    /\ trades < MaxLedgerCalls
    /\ IF product \notin DOMAIN quotes
       THEN /\ last_call' = LedgerCall("buy", product, quantity, "ValueError", FALSE)
            /\ UNCHANGED <<cash, positions>>
       ELSE LET r == buy(quotes, cash, positions, product, quantity)
            IN /\ cash' = r.cash
               /\ positions' = r.positions
               /\ last_call' = LedgerCall("buy", product, quantity, "returned", r.result)
    /\ trades' = trades + 1
    /\ UNCHANGED <<toolvars, evalvars, csv, builder, pc, universe, data_batches, quotes,
                   nav_history, bi, qi, on_quote_calls, last_update, raised, record>>

\* portfolio.sell(product, quantity)
LedgerSell(product, quantity) ==
    /\ pc = "ledger"
    /\ trades < MaxLedgerCalls
    /\ IF product \notin DOMAIN quotes
       THEN /\ last_call' = LedgerCall("sell", product, quantity, "ValueError", FALSE)
            /\ UNCHANGED <<cash, positions>>
       ELSE LET r == sell(quotes, cash, positions, product, quantity)
            IN /\ cash' = r.cash
               /\ positions' = r.positions
               /\ last_call' = LedgerCall("sell", product, quantity, "returned", r.result)
    /\ trades' = trades + 1
    /\ UNCHANGED <<toolvars, evalvars, csv, builder, pc, universe, data_batches, quotes,
                   nav_history, bi, qi, on_quote_calls, last_update, raised, record>>

LedgerNext ==
    \/ \E quote \in LedgerQuotes : LedgerUpdate(quote)
    \/ \E product \in TradeProducts, quantity \in Quantities : LedgerBuy(product, quantity)
    \/ \E product \in TradeProducts, quantity \in Quantities : LedgerSell(product, quantity)

LedgerSpec == LedgerInit /\ [][LedgerNext]_vars

----------------------------------------------------------------------------
(* Amounts of a portfolio, recomputed from its cash, positions and quotes.   *)

\* some held quantity is at a price that is NaN
HeldAtNaN(qs, pos) == \E p \in DOMAIN pos : pos[p] # 0 /\ qs[p].price.nan

ValueOf(qs, pos) ==
    LET V(p) == pos[p] * qs[p].price.v IN SumOver(DOMAIN pos, V)

NavOf(qs, c, pos) == c + ValueOf(qs, pos)

GrossOf(qs, pos) ==
    LET E(p) == Abs(pos[p]) * qs[p].price.v IN SumOver(DOMAIN pos, E)

\* a step that is a call of buy or sell
CallStep == trades' = trades + 1

AdmittedStep == CallStep /\ last_call'.outcome = "returned" /\ last_call'.result = TRUE

----------------------------------------------------------------------------
(* Round trips: a call and the opposite call of the same product and         *)
(* quantity, both admitted, at the quotes of the first call.  last_call is   *)
(* the first call and last_call' the second one.                              *)

Opposite(op) == IF op = "buy" THEN "sell" ELSE "buy"

RoundTripStep ==
    /\ AdmittedStep
    /\ last_call.outcome = "returned"
    /\ last_call.result = TRUE
    /\ last_call'.op = Opposite(last_call.op)
    /\ last_call'.product = last_call.product
    /\ last_call'.quantity = last_call.quantity
    /\ last_call.quotes_before = quotes

\* the share of product p in the exposure and in the net asset value
ExposureOf(qs, pos, p) == FMul(Num(Abs(pos[p])), _get_price(qs, p))

NavShareOf(qs, pos, p) == FMul(Num(pos[p]), _get_price(qs, p))

----------------------------------------------------------------------------
(* Leverage between trades.  The check of buy and sell is the only place     *)
(* where leverage_limit is read; Market.update changes the prices under the  *)
(* positions without it.                                                      *)

\* every product of S has a price that is a number
Priced(qs, S) == \A p \in S : ~qs[p].price.nan

\* the portfolio's leverage gross / max(nav, 1e-8) is above leverage_limit
OverLimit(qs, c, pos) ==
    /\ Priced(qs, DOMAIN pos)
    /\ Exceeds(GrossOf(qs, pos), NavOf(qs, c, pos), leverage_limit)

\* a call, in a state above the limit, that asks for a strictly lower exposure
ReducingStep ==
    /\ TradeStep
    /\ Priced(quotes, ProjectedHeld)
    /\ OverLimit(quotes, cash, positions)
    /\ ProjectedGross < GrossOf(quotes, positions)

\* C37: leverage is within the limit right after an admitted trade, but a
\* market update can carry it above the limit; there, a trade that strictly
\* lowers the exposure is admitted only if the leverage it leaves is within
\* the limit, and is rejected without effect otherwise
C37_BoundOnlyAtAdmission ==
    [][/\ AdmittedStep =>
             /\ Priced(quotes, DOMAIN positions')
             /\ ~OverLimit(quotes, cash', positions')
       /\ ReducingStep =>
             /\ last_call'.result = ~Exceeds(ProjectedGross, ProjectedNav, leverage_limit)
             /\ last_call'.result = FALSE => (cash' = cash /\ positions' = positions)
       /\ (~OverLimit(quotes, cash, positions) /\ OverLimit(quotes', cash', positions'))
             => (quotes' # quotes /\ cash' = cash /\ positions' = positions)]_vars

\* B was bought at 100 and fell to 91: net asset value 10000 under an exposure
\* of 910000; the sale of 4000 of the 10000 units was rejected
C37_Witness ==
    /\ pc = "ledger"
    /\ last_call.op = "sell"
    /\ last_call.outcome = "returned"
    /\ last_call.result = FALSE
    /\ last_call.quotes_before = quotes
    /\ last_call.product \in DOMAIN positions
    /\ positions[last_call.product] > last_call.quantity
    /\ OverLimit(quotes, cash, positions)
    /\ NavOf(quotes, cash, positions) > 0


----------------------------------------------------------------------------
(* The clamp of the denominator.  With a net asset value of zero or less the *)
(* check divides by 1e-8, so only an exposure of at most leverage_limit *    *)
(* 1e-8 passes; on the whole amounts of the model that is an exposure of 0.  *)

\* the products a call would leave held at a positive price
ProjectedOpen == {p \in ProjectedHeld : ProjectedQty(p) # 0 /\ PriceOf(p) > 0}

\* the products held at a positive price
Open(qs, pos) == {p \in DOMAIN pos : pos[p] # 0 /\ qs[p].price.v > 0}

Rejected == last_call'.result = FALSE /\ cash' = cash /\ positions' = positions

----------------------------------------------------------------------------
(* A strategy object without on_quote.  run() returns at the hasattr check,  *)
(* before the loop over the batches; evaluate_submission goes on to the      *)
(* metrics as after any other run.                                            *)

\* the engine as its constructor left it
Untouched ==
    /\ quotes = EmptyMap
    /\ cash = initial_cash
    /\ positions = EmptyMap
    /\ nav_history = <<Num(initial_cash)>>
    /\ \A i \in DOMAIN on_quote_calls : on_quote_calls[i] = 0
    /\ last_update = EmptyMap
    /\ trades = 0

C39_State ==
    builder = "no_on_quote" =>
        /\ pc \in {"run", "metrics", "completed"} => Untouched
        /\ pc = "completed" =>
              /\ record.kind = "metrics"
              /\ record.score = SharpeZero
              /\ record.sharpe_ratio = SharpeZero
              /\ record.final_nav = Num(initial_cash)
              /\ record.pnl = Num(0)
              /\ record.samples = 1

C39_Step ==
    (builder = "no_on_quote" /\ pc \in {"run", "metrics"}) =>
        /\ pc = "run" => pc' = "metrics"
        /\ pc = "metrics" => (pc' = "completed" /\ record' # ErrorRecord)

\* C39: with a strategy object that has no on_quote, run() applies no quote and
\* appends no NAV sample, and the evaluator writes a success record with score
\* 0.0 and final_nav equal to the initial cash, not an error record
C39_NoOnQuote == []C39_State /\ [][C39_Step]_vars

\* a run over a file with price rows, finished with the success record, with a
\* strategy object that has no on_quote
C39_Witness ==
    /\ builder = "no_on_quote"
    /\ pc = "completed"
    /\ Len(data_batches) >= 2
    /\ record.kind = "metrics"
    /\ record.score = SharpeZero
    /\ nav_history = <<Num(initial_cash)>>


----------------------------------------------------------------------------
(* The records of a submission.  The success item and the error item of an   *)
(* evaluation have the same key, participant_id and submission_id, and each  *)
(* is written with put_item.                                                  *)

KeyOf(info) == <<info.participant_id, info.submission_id>>

\* a step in which the evaluation of the current submission ends
OutcomeStep == Len(results') = Len(results) + 1

IsSuccessItem(it) ==
    DOMAIN it = {"participant_id", "submission_id", "original_submission_id", "score",
                 "timestep"}

IsErrorItem(it) ==
    /\ DOMAIN it = {"participant_id", "submission_id", "score", "error", "timestamp"}
    /\ it.score = -999

\* the table has a record for the submissions evaluated so far and no other
C40_State ==
    /\ DOMAIN table \subseteq {KeyOf(submissions_to_process[i]) : i \in 1..Len(results)}
    /\ \A k \in DOMAIN table :
          /\ k = <<table[k].participant_id, table[k].submission_id>>
          /\ IsSuccessItem(table[k]) \/ IsErrorItem(table[k])

C40_Step ==
    OutcomeStep =>
        LET k == KeyOf(Current)
            outcome == results'[Len(results')]
        IN /\ \A o \in DOMAIN table \ {k} : o \in DOMAIN table' /\ table'[o] = table[o]
           /\ DOMAIN table' \subseteq DOMAIN table \cup {k}
           /\ outcome = "success" =>
                 /\ k \in DOMAIN table'
                 /\ IsSuccessItem(table'[k])
                 /\ table'[k].score \in Scores
                 /\ table'[k].timestep = now
           /\ (outcome = "failed" /\ table' # table) =>
                 /\ k \in DOMAIN table'
                 /\ table'[k] = ErrorItem(k[1], k[2], now)
                 /\ IsErrorItem(table'[k])

\* C40: the table has one record per (participant_id, submission_id); the
\* record an evaluation writes, success or error, takes the place of the
\* record of that submission, so an error record after a success leaves
\* score -999 and nothing of the success
C40_OneRecordPerSubmission == []C40_State /\ [][C40_Step]_vars

\* one submission evaluated twice, with success and then with a failure: its
\* only record is the error record
C40_Witness ==
    /\ Len(results) >= 2
    /\ results[1] = "success"
    /\ results[2] = "failed"
    /\ KeyOf(submissions_to_process[1]) = KeyOf(submissions_to_process[2])
    /\ DOMAIN table = {KeyOf(submissions_to_process[1])}
    /\ IsErrorItem(table[KeyOf(submissions_to_process[1])])
    /\ table[KeyOf(submissions_to_process[1])].timestamp = 2

====
